---- MODULE Spec2Model ----
(***************************************************************************)
(* Transport of the Synology SRM client: Http.call, Http._login and the    *)
(* SynologyError hierarchy (synology_api/http.py), run by one or more      *)
(* executor threads that share one Http instance.                          *)
(***************************************************************************)
EXTENDS Integers, Sequences, FiniteSets, TLC

\* ------------------------------------------------------------------ bounds
\* Logical Http.call invocations started in one behaviour.
MaxCalls == 2
\* Profiles in a WiFi configuration.
MaxProfiles == 2

\* ------------------------------------------------------------ value domains
Threads == {1, 2}

\* Python None, the value Http.__init__ gives self.sid.
None == "None"
Sids == {"sidA", "sidB"}
SidVals == Sids \cup {None}

\* Error codes the server answers with: below, inside and above [100,200).
Codes == {99, 105, 106, 107, 117, 150, 199, 200, 400}

\* The `data` member of an answer: a JSON object with or without a "sid" key.
NoSidData == [hasSid |-> FALSE, sid |-> None]
SidData(s) == [hasSid |-> TRUE, sid |-> s]
DataVals == {NoSidData} \cup {SidData(s) : s \in SidVals}

\* A decoded JSON object, by the keys Http.call looks at.
Body(hs, s, hd, d, he, hc, c) ==
    [hasSuccess |-> hs, success |-> s, hasData |-> hd, data |-> d,
     hasError |-> he, hasCode |-> hc, code |-> c]

OkBody(d) == Body(TRUE, TRUE, TRUE, d, FALSE, FALSE, 0)
OkNoDataBody == Body(TRUE, TRUE, FALSE, NoSidData, FALSE, FALSE, 0)
OkWithErrorBody == Body(TRUE, TRUE, TRUE, NoSidData, TRUE, TRUE, 106)
ErrBody(c) == Body(TRUE, FALSE, FALSE, NoSidData, TRUE, TRUE, c)
FailNoErrorBody == Body(TRUE, FALSE, FALSE, NoSidData, FALSE, FALSE, 0)
FailNoCodeBody == Body(TRUE, FALSE, FALSE, NoSidData, TRUE, FALSE, 0)
EmptyBody == Body(FALSE, FALSE, FALSE, NoSidData, FALSE, FALSE, 0)
OnlyDataBody == Body(FALSE, FALSE, TRUE, NoSidData, FALSE, FALSE, 0)
OnlyErrorBody == Body(FALSE, FALSE, FALSE, NoSidData, TRUE, TRUE, 106)
DataAndErrorBody == Body(FALSE, FALSE, TRUE, NoSidData, TRUE, TRUE, 106)

JsonBodies ==
    {OkBody(d) : d \in DataVals} \cup {ErrBody(c) : c \in Codes}
    \cup {OkNoDataBody, OkWithErrorBody, FailNoErrorBody, FailNoCodeBody,
          EmptyBody, OnlyDataBody, OnlyErrorBody, DataAndErrorBody}

\* What requests.get gives back: it raises (net = "timeout"), or yields a
\* response with a status code, a content type and a body.
Answer(n, st, z, j, b) == [net |-> n, status |-> st, zip |-> z, json |-> j, body |-> b]
TimeoutAnswer == Answer("timeout", 0, FALSE, FALSE, EmptyBody)
Non200Answer(b) == Answer("ok", 500, FALSE, TRUE, b)
ZipAnswer == Answer("ok", 200, TRUE, FALSE, EmptyBody)
NotJsonAnswer == Answer("ok", 200, FALSE, FALSE, EmptyBody)
JsonAnswer(b) == Answer("ok", 200, FALSE, TRUE, b)
NoAnswer == Answer("none", 0, FALSE, FALSE, EmptyBody)

Answers ==
    {TimeoutAnswer, Non200Answer(ErrBody(106)), Non200Answer(OkBody(NoSidData)),
     ZipAnswer, NotJsonAnswer}
    \cup {JsonAnswer(b) : b \in JsonBodies}

\* The answers of a server that keeps to the vendor protocol, plus a non-200.
ProtocolAnswers ==
    {Non200Answer(OkBody(NoSidData)), JsonAnswer(OkBody(NoSidData)), JsonAnswer(ErrBody(106))}
    \cup {JsonAnswer(OkBody(SidData(s))) : s \in Sids}

\* Values Http.call returns.
Value(k, d, b) == [kind |-> k, data |-> d, flag |-> b]
NoValue == Value("none", NoSidData, FALSE)
DataValue(d) == Value("data", d, FALSE)
BoolValue(b) == Value("bool", NoSidData, b)
StreamValue == Value("stream", NoSidData, FALSE)

\* ------------------------------------------------------------------- state
VARIABLES
    sid,        \* Http.sid
    stack,      \* per thread: the frames of Http.call / Http._login, top last
    log,        \* per thread: the HTTP requests and sid stores of its logical call
    outcome,    \* per thread: how its logical call ended
    req,        \* per thread: the arguments of its logical call
    calls,      \* logical calls started so far
    world,      \* who calls and what the server answers: the threads that use
                \* the Http instance, the arguments they call with, and the
                \* answers the server may give
    objs,       \* the configuration dicts in memory, by object: the value of each
    held,       \* per WiFiConfigManager: the object its self.config refers to
    built,      \* per WiFiConfigManager: the snapshot object it was built from
    touched,    \* the managers on which a mutation has returned True
    layout,     \* per WiFiConfigManager built at setup: the (profile id, radio
                \* type) of the switches set up from its summary
    router,     \* the WiFi configuration the router holds
    cycle,      \* per executor thread: the switch handler it runs and how far
                \* it has got
    pushes,     \* the threads whose set_network_setting reached the router,
                \* in order
    last,       \* the last operation a caller invoked directly: its name,
                \* arguments and what it returned
    svc         \* the switch handler or service that ran: its arguments, what
                \* its closure fetched and pushed, and how it ended

httpVars == <<sid, stack, log, outcome, req, calls, world>>
modelVars == <<objs, held, built, touched, layout>>
cycleVars == <<router, cycle, pushes>>
opVars == <<last, svc>>
vars == <<httpVars, modelVars, cycleVars, opVars>>

\* ------------------------------------------------------------ error messages
\* COMMON_ERROR_CODES and Http._get_common_error_message.
CommonErrorCodes == {100, 101, 102, 103, 104, 105, 106, 107, 117}

CommonErrorText(code) ==
    CASE code = 100 -> "Unknown error"
      [] code = 101 -> "No parameter of API, method or version"
      [] code = 102 -> "The requested API does not exist"
      [] code = 103 -> "The requested method does not exist"
      [] code = 104 -> "The requested version does not support the functionality"
      [] code = 105 -> "The logged in session does not have permission"
      [] code = 106 -> "Session timeout"
      [] code = 107 -> "Session interrupted by duplicate login"
      [] code = 117 -> "Need manager rights for operation"
      [] OTHER -> ""

GetCommonErrorMessage(code) ==
    IF code \notin CommonErrorCodes
    THEN "Unknown common error, please check the documentation"
    ELSE CommonErrorText(code)

\* The `errors` argument of Http.call, by name: the table of _login, no table,
\* and a caller's table.
ErrorTables == {"login", "none", "custom"}

ErrorsDomain(errors) ==
    CASE errors = "login" -> {400, 401, 402, 403, 404}
      [] errors = "custom" -> {106, 200}
      [] OTHER -> {}

ErrorsText(errors, code) ==
    CASE errors = "login" /\ code = 400 -> "No such account or incorrect password"
      [] errors = "login" /\ code = 401 -> "Account disabled"
      [] errors = "login" /\ code = 402 -> "Permission denied"
      [] errors = "login" /\ code = 403 -> "2-step verification code required"
      [] errors = "login" /\ code = 404 -> "Failed to authenticate 2-step verification code"
      [] errors = "custom" -> "Known API error of the caller"
      [] OTHER -> ""

\* ----------------------------------------------------------------- results
\* What one pass through the body of Http.call does after requests.get.
Result(act, exc, cls, code, msg, v) ==
    [act |-> act, exc |-> exc, cls |-> cls, code |-> code, message |-> msg, value |-> v]
NoOutcome == Result("none", "", "", 0, "", NoValue)
Raise(exc, msg) == Result("raise", exc, "", 0, msg, NoValue)
Return(v) == Result("return", "", "", 0, "", v)
Relogin == Result("relogin", "", "", 0, "", NoValue)

\* SynologyError.__init__: stores code and message on the new object, then
\* calls super(SynologyError).__init__(text). super(SynologyError) is an unbound
\* super object, so the call re-initialises that object with a str where a type
\* is required and raises TypeError: the object under construction (class cls,
\* with that code and message) is never raised.
SynologyErrorInit(cls, code, message) ==
    Result("raise", "TypeError", cls, code, message, NoValue)

\* Variant of the test of line 134 that rejects only an object with none of
\* the three keys.
MalformedBothMissing(data) ==
    ~data.hasSuccess /\ ~data.hasData /\ ~data.hasError

\* The test of line 134 on the decoded object.
Malformed(data) ==
    ~data.hasSuccess /\ (~data.hasData \/ ~data.hasError)

\* Variant of the failure branch that retries 106/107 on public routes too:
\* line 148 tests `retried` alone.
HandleFailureRetryPublic(f, data) ==
    IF ~data.hasError \/ ~data.hasCode
    THEN Raise("KeyError", "error code")
    ELSE LET code == data.code IN
         IF 100 <= code /\ code < 200
         THEN LET message == GetCommonErrorMessage(code) IN
              IF code \in {106, 107}
              THEN IF f.retried
                   THEN SynologyErrorInit("SynologyCommonError", code, message)
                   ELSE Relogin
              ELSE SynologyErrorInit("SynologyCommonError", code, message)
         ELSE SynologyErrorInit(
                  "SynologyApiError", code,
                  IF code \in ErrorsDomain(f.errors)
                  THEN ErrorsText(f.errors, code)
                  ELSE "Unknown API error, please check the documentation")

\* Variant of the failure branch without the test of line 147: every common
\* code takes the re-login path.
HandleFailureRetryCommon(f, data) ==
    IF ~data.hasError \/ ~data.hasCode
    THEN Raise("KeyError", "error code")
    ELSE LET code == data.code IN
         IF 100 <= code /\ code < 200
         THEN LET message == GetCommonErrorMessage(code) IN
              IF ~f.restricted \/ f.retried
              THEN SynologyErrorInit("SynologyCommonError", code, message)
              ELSE Relogin
         ELSE SynologyErrorInit(
                  "SynologyApiError", code,
                  IF code \in ErrorsDomain(f.errors)
                  THEN ErrorsText(f.errors, code)
                  ELSE "Unknown API error, please check the documentation")

\* The `if not data["success"]` branch of Http.call, lines 139-182.
HandleFailure(f, data) ==
    IF ~data.hasError \/ ~data.hasCode
    THEN Raise("KeyError", "error code")
    ELSE LET code == data.code IN
         IF 100 <= code /\ code < 200
         THEN LET message == GetCommonErrorMessage(code) IN
              IF code \in {106, 107}
              THEN IF ~f.restricted \/ f.retried
                   THEN SynologyErrorInit("SynologyCommonError", code, message)
                   ELSE Relogin
              ELSE SynologyErrorInit("SynologyCommonError", code, message)
         ELSE SynologyErrorInit(
                  "SynologyApiError", code,
                  IF code \in ErrorsDomain(f.errors)
                  THEN ErrorsText(f.errors, code)
                  ELSE "Unknown API error, please check the documentation")

\* Variant of lines 184-186 that returns data["success"] whenever the key is
\* there: the test `"data" not in data` is missing.
SuccessValueAlwaysFlag(data) == BoolValue(data.success)

\* Lines 184-186: the value of `success` when the object has no `data` key,
\* the value of `data` otherwise.
SuccessValue(data) ==
    IF data.hasSuccess /\ ~data.hasData
    THEN BoolValue(data.success)
    ELSE DataValue(data.data)

\* What the caller can see of the exception that ends a call: for the TypeError
\* raised inside SynologyError.__init__ neither the class, nor the code, nor
\* the message of the error that was being built.
Surfaced(o) ==
    IF o.act = "raise" /\ o.exc = "TypeError" /\ o.cls # ""
    THEN [exc |-> "TypeError", code |-> 0,
          message |-> "super() argument 1 must be type, not str"]
    ELSE [exc |-> o.exc, code |-> o.code, message |-> o.message]

\* Variant of the response handling without the status test of line 121.
HandleResponseStatusUnchecked(f, a) ==
    IF a.net = "timeout"
    THEN Raise("Timeout", "requests.get timed out")
    ELSE IF a.zip
    THEN Return(StreamValue)
    ELSE IF ~a.json
    THEN Raise("JSONDecodeError", "response.json()")
    ELSE LET data == a.body IN
         IF Malformed(data)
         THEN Raise("SynologyHttpException", "The output received by the server is malformed")
         ELSE IF ~data.hasSuccess
         THEN Raise("KeyError", "success")
         ELSE IF ~data.success
         THEN HandleFailure(f, data)
         ELSE Return(SuccessValue(data))

\* Http.call from the return of requests.get to its own return or raise,
\* lines 112-186, for the frame f and the server's answer a.
HandleResponse(f, a) ==
    IF a.net = "timeout"
    THEN Raise("Timeout", "requests.get timed out")
    ELSE IF a.status # 200
    THEN Raise("SynologyHttpException", "The server answered a wrong status code")
    ELSE IF a.zip
    THEN Return(StreamValue)
    ELSE IF ~a.json
    THEN Raise("JSONDecodeError", "response.json()")
    ELSE LET data == a.body IN
         IF Malformed(data)
         THEN Raise("SynologyHttpException", "The output received by the server is malformed")
         ELSE IF ~data.hasSuccess
         THEN Raise("KeyError", "success")
         ELSE IF ~data.success
         THEN HandleFailure(f, data)
         ELSE Return(SuccessValue(data))

\* ------------------------------------------------------------------ frames
\* `target` stands for endpoint, api, method, version and the call's params:
\* those of _login's call (lines 66-73) or those the caller gave. `stream` is
\* the parameter of line 90, False unless passed.
Frame(fn, pc, login, errors, restricted, retried) ==
    [fn |-> fn, pc |-> pc, login |-> login, errors |-> errors,
     restricted |-> restricted, retried |-> retried, cookie |-> None, resp |-> NoValue,
     target |-> IF login THEN "SYNO.API.Auth" ELSE "caller", stream |-> FALSE]

\* A frame of Http.call at its first statement.
CallFrame(login, errors, restricted, retried) ==
    Frame("call", "check", login, errors, restricted, retried)

\* A call given stream explicitly (download, line 79, passes stream=True).
Streamed(f, stream) == [f EXCEPT !.stream = stream]

\* Variant of lines 66-73 where _login's call leaves restricted at its default.
LoginFramesRestricted ==
    <<Frame("_login", "wait", TRUE, "login", FALSE, FALSE),
      CallFrame(TRUE, "login", TRUE, FALSE)>>

\* Http._login up to its call of self.call: the frame of _login waiting for
\* the answer, and above it the frame of the SYNO.API.Auth call it makes.
LoginFrames ==
    <<Frame("_login", "wait", TRUE, "login", FALSE, FALSE),
      CallFrame(TRUE, "login", FALSE, FALSE)>>

Top(s) == s[Len(s)]
Pop(s) == SubSeq(s, 1, Len(s) - 1)
SetTop(s, f) == [s EXCEPT ![Len(s)] = f]

\* The value v returned by the top frame reaches the frame below it: a frame of
\* Http.call in `return self.call(...)` returns it in turn, a frame of _login
\* takes it as `response`, and with no frame left it is the caller's result.
RECURSIVE ReturnTo(_, _)
ReturnTo(s, v) ==
    IF s = <<>> THEN s
    ELSE IF Top(s).fn = "call" /\ Top(s).pc = "tail" THEN ReturnTo(Pop(s), v)
    ELSE IF Top(s).fn = "_login" /\ Top(s).pc = "wait"
    THEN SetTop(s, [Top(s) EXCEPT !.pc = "store", !.resp = v])
    ELSE s

\* An entry of the log: an HTTP request with its answer, or a store of self.sid.
Event(ev, f, a, pre, post) ==
    [ev |-> ev, login |-> f.login, restricted |-> f.restricted, retried |-> f.retried,
     errors |-> f.errors, cookie |-> f.cookie, ans |-> a, pre |-> pre, post |-> post,
     target |-> f.target, stream |-> f.stream]

\* ------------------------------------------------------ WiFi configuration
\* A fetched configuration, by the keys WiFiConfigManager reads: a dict with or
\* without "profiles"; a profile has an id, a radio_list and may lack
\* "enable_smart_connect"; a radio has a radio_type, an ssid and may lack
\* "enable". Ids are unique within a configuration and radio types within a
\* profile, as the vendor's data model has it.
RadioTypes == {"2.4G", "5G-1", "5G-2", "SmartConnect"}

Radio(rt, ssid, he, e) == [radio_type |-> rt, ssid |-> ssid, hasEnable |-> he, enable |-> e]
Profile(id, hs, sc, rl) == [id |-> id, hasSc |-> hs, sc |-> sc, radio_list |-> rl]
Config(hp, ps) == [hasProfiles |-> hp, profiles |-> ps]

\* The radio lists a profile may have (with every flag off).
RadioLists ==
    {<<>>,
     <<Radio("SmartConnect", "Home", TRUE, FALSE), Radio("2.4G", "Home", TRUE, FALSE)>>,
     <<Radio("5G-1", "Guest", FALSE, FALSE), Radio("5G-2", "Guest", TRUE, FALSE)>>}

\* A radio list with its `enable` flags set in every way.
RECURSIVE RadioListStates(_)
RadioListStates(rl) ==
    IF rl = <<>> THEN {<<>>}
    ELSE {<<[Head(rl) EXCEPT !.enable = e]>> \o rest :
              e \in (IF Head(rl).hasEnable THEN BOOLEAN ELSE {FALSE}),
              rest \in RadioListStates(Tail(rl))}

\* The profiles with identifier id.
ProfilesOf(id) ==
    {pr \in {Profile(id, hs, sc, rl) :
                hs \in BOOLEAN, sc \in BOOLEAN,
                rl \in UNION {RadioListStates(l) : l \in RadioLists}} :
        pr.hasSc \/ ~pr.sc}

\* The profile lists of n profiles; the identifiers run against the positions.
RECURSIVE ProfileLists(_, _)
ProfileLists(n, k) ==
    IF k > n THEN {<<>>}
    ELSE {<<pr>> \o rest : pr \in ProfilesOf(n + 1 - k), rest \in ProfileLists(n, k + 1)}

Configs ==
    {Config(FALSE, <<>>)}
    \cup {Config(TRUE, ps) : ps \in UNION {ProfileLists(n, 1) : n \in 0..MaxProfiles}}

\* The profile identifiers and radio types callers ask for; 0 is the id of no
\* profile.
ProfileArgs == 0..MaxProfiles

\* WiFiConfigManager.get_profiles, lines 16-18.
GetProfiles(config) == IF config.hasProfiles THEN config.profiles ELSE <<>>

\* Variant of lines 20-25 that falls back to the first profile.
GetProfileByIdOrFirst(config, profile_id) ==
    LET ps == GetProfiles(config)
        hits == {i \in DOMAIN ps : ps[i].id = profile_id}
    IN  IF hits = {} THEN (IF ps = <<>> THEN 0 ELSE 1)
        ELSE CHOOSE i \in hits : \A j \in hits : i <= j

\* WiFiConfigManager.get_profile_by_id, lines 20-25, as the position of the
\* first profile with that id; 0 stands for None.
GetProfileById(config, profile_id) ==
    LET ps == GetProfiles(config)
        hits == {i \in DOMAIN ps : ps[i].id = profile_id}
    IN  IF hits = {} THEN 0 ELSE CHOOSE i \in hits : \A j \in hits : i <= j

\* WiFiConfigManager.get_radio_by_type, lines 27-38, as the position of the
\* first radio of that type in the profile's radio_list; 0 stands for None.
GetRadioByType(config, profile_id, radio_type) ==
    LET pi == GetProfileById(config, profile_id) IN
    IF pi = 0 THEN 0
    ELSE LET rl == GetProfiles(config)[pi].radio_list
             hits == {i \in DOMAIN rl : rl[i].radio_type = radio_type}
         IN  IF hits = {} THEN 0 ELSE CHOOSE i \in hits : \A j \in hits : i <= j

\* profile.get("enable_smart_connect", False) and radio.get("enable", False).
SmartConnectOf(profile) == profile.hasSc /\ profile.sc
EnableOf(radio) == radio.hasEnable /\ radio.enable

\* WiFiConfigManager.is_smart_connect_enabled, lines 120-123.
IsSmartConnectEnabled(config, profile_id) ==
    LET pi == GetProfileById(config, profile_id) IN
    IF pi = 0 THEN FALSE ELSE SmartConnectOf(GetProfiles(config)[pi])

\* Variant of lines 125-136 that answers for a band radio whatever the type.
IsRadioAvailableAnyType(config, profile_id, radio_type) ==
    LET pi == GetProfileById(config, profile_id) IN
    IF pi = 0 THEN FALSE ELSE ~SmartConnectOf(GetProfiles(config)[pi])

\* WiFiConfigManager.is_radio_available, lines 125-136.
IsRadioAvailable(config, profile_id, radio_type) ==
    LET pi == GetProfileById(config, profile_id) IN
    IF pi = 0 THEN FALSE
    ELSE LET enable_smart_connect == SmartConnectOf(GetProfiles(config)[pi]) IN
         IF radio_type = "SmartConnect" THEN enable_smart_connect
         ELSE ~enable_smart_connect

\* WiFiConfigManager.is_radio_enabled, lines 138-141.
IsRadioEnabled(config, profile_id, radio_type) ==
    LET pi == GetProfileById(config, profile_id)
        ri == GetRadioByType(config, profile_id, radio_type)
    IN  IF ri = 0 THEN FALSE ELSE EnableOf(GetProfiles(config)[pi].radio_list[ri])

\* WiFiConfigManager.toggle_smart_connect, lines 92-103: what it returns and
\* what it leaves in the dict.
ToggleSmartConnectReturns(config, profile_id) == GetProfileById(config, profile_id) # 0

\* Variant of lines 92-103 that also switches the profile's radios off.
ToggleSmartConnectRadiosOff(config, profile_id, enabled) ==
    LET pi == GetProfileById(config, profile_id) IN
    IF pi = 0 THEN config
    ELSE [config EXCEPT !.profiles[pi].hasSc = TRUE, !.profiles[pi].sc = enabled,
                        !.profiles[pi].radio_list =
                            [r \in DOMAIN @ |-> [@[r] EXCEPT !.enable = FALSE]]]

ToggleSmartConnect(config, profile_id, enabled) ==
    LET pi == GetProfileById(config, profile_id) IN
    IF pi = 0 THEN config
    ELSE [config EXCEPT !.profiles[pi].hasSc = TRUE, !.profiles[pi].sc = enabled]

\* WiFiConfigManager.enable_radio, lines 105-114.
EnableRadioReturns(config, profile_id, radio_type) ==
    GetRadioByType(config, profile_id, radio_type) # 0

\* Variant of lines 105-114 that leaves a radio alone while Smart Connect
\* makes it unavailable.
EnableRadioIfAvailable(config, profile_id, radio_type, enabled) ==
    LET pi == GetProfileById(config, profile_id)
        ri == GetRadioByType(config, profile_id, radio_type)
    IN  IF ri = 0 \/ ~IsRadioAvailable(config, profile_id, radio_type) THEN config
        ELSE [config EXCEPT !.profiles[pi].radio_list[ri].hasEnable = TRUE,
                            !.profiles[pi].radio_list[ri].enable = enabled]

\* Variant of line 112 that flips the flag when asked to switch it on.
EnableRadioFlips(config, profile_id, radio_type, enabled) ==
    LET pi == GetProfileById(config, profile_id)
        ri == GetRadioByType(config, profile_id, radio_type)
    IN  IF ri = 0 THEN config
        ELSE [config EXCEPT !.profiles[pi].radio_list[ri].hasEnable = TRUE,
                            !.profiles[pi].radio_list[ri].enable =
                                IF enabled THEN ~@ ELSE FALSE]

EnableRadio(config, profile_id, radio_type, enabled) ==
    LET pi == GetProfileById(config, profile_id)
        ri == GetRadioByType(config, profile_id, radio_type)
    IN  IF ri = 0 THEN config
        ELSE [config EXCEPT !.profiles[pi].radio_list[ri].hasEnable = TRUE,
                            !.profiles[pi].radio_list[ri].enable = enabled]

\* The descriptors of get_network_summary, lines 40-90. The toggle's dict has
\* no "available" key. network_type and profile_name, which every descriptor
\* copies from its profile, are left out.
Descriptor(pid, rt, ssid, st, en, ha, av, aa) ==
    [profile_id |-> pid, radio_type |-> rt, ssid |-> ssid, switch_type |-> st,
     enabled |-> en, hasAvailable |-> ha, available |-> av, always_available |-> aa]

\* Variant of lines 50-61 whose toggle is always available only while Smart
\* Connect is on.
ToggleDescriptorWhenOn(profile) ==
    Descriptor(profile.id, "smart_connect_toggle", " SmartConnect Toggle",
               "smart_connect_toggle", SmartConnectOf(profile), FALSE, FALSE,
               SmartConnectOf(profile))

ToggleDescriptor(profile) ==
    Descriptor(profile.id, "smart_connect_toggle", " SmartConnect Toggle",
               "smart_connect_toggle", SmartConnectOf(profile), FALSE, FALSE, TRUE)

\* Variant of lines 70-74 with the two branches exchanged.
RadioAvailableInverted(profile, radio) ==
    IF radio.radio_type = "SmartConnect" THEN ~SmartConnectOf(profile)
    ELSE SmartConnectOf(profile)

RadioAvailable(profile, radio) ==
    IF radio.radio_type = "SmartConnect" THEN SmartConnectOf(profile)
    ELSE ~SmartConnectOf(profile)

RadioDescriptor(profile, radio) ==
    Descriptor(profile.id, radio.radio_type, radio.ssid, "radio",
               EnableOf(radio), TRUE, RadioAvailable(profile, radio), FALSE)

\* Variant of lines 65-88 that lists only the radios that are switched on.
RECURSIVE RadioDescriptorsEnabledOnly(_, _)
RadioDescriptorsEnabledOnly(profile, rl) ==
    IF rl = <<>> THEN <<>>
    ELSE (IF EnableOf(Head(rl)) THEN <<RadioDescriptor(profile, Head(rl))>> ELSE <<>>)
         \o RadioDescriptorsEnabledOnly(profile, Tail(rl))

RECURSIVE RadioDescriptors(_, _)
RadioDescriptors(profile, rl) ==
    IF rl = <<>> THEN <<>>
    ELSE <<RadioDescriptor(profile, Head(rl))>> \o RadioDescriptors(profile, Tail(rl))

\* Variant of lines 44-88 that appends the toggle after the profile's radios.
ProfileSummaryToggleLast(profile) ==
    RadioDescriptors(profile, profile.radio_list) \o <<ToggleDescriptor(profile)>>

ProfileSummary(profile) ==
    <<ToggleDescriptor(profile)>> \o RadioDescriptors(profile, profile.radio_list)

RECURSIVE Summarize(_)
Summarize(profiles) ==
    IF profiles = <<>> THEN <<>>
    ELSE ProfileSummary(Head(profiles)) \o Summarize(Tail(profiles))

GetNetworkSummary(config) == Summarize(GetProfiles(config))

\* The switches async_setup_entry creates from a summary: one per descriptor,
\* addressed by profile id and radio type.
SwitchesOf(summary) ==
    [k \in DOMAIN summary |-> <<summary[k].profile_id, summary[k].radio_type>>]

\* Variant of lines 116-118 that returns a dict rebuilt around the profile
\* list.
GetConfigRebuilt(m) == Config(TRUE, GetProfiles(objs[held[m]]))

\* WiFiConfigManager.get_config, lines 116-118: the dict the manager refers to.
GetConfig(m) == objs[held[m]]

\* ----------------------------------------------------------------- actions
\* `if restricted and self.sid is None`, line 101.
NeedsLogin(f, s) == f.restricted /\ s = None

\* Variant of lines 104-106 that never fills the cookies.
CookieOfDropped(s) == None

\* The cookies of lines 104-106: the session id when there is one (None stands
\* for no cookie).
CookieOf(s) == s

\* Variant of lines 158-167 that leaves retried at its default.
RetryFrameNotMarked(f) == CallFrame(f.login, f.errors, TRUE, FALSE)

\* The frame of the call of lines 158-167: endpoint, api, method, version,
\* params and errors are passed on, restricted=True and retried=True are
\* given, and stream is not among the arguments, so it takes its default.
RetryFrame(f) == CallFrame(f.login, f.errors, TRUE, TRUE)

\* Variant of line 75 that reads the sid with response.get("sid"): a missing
\* key stores None.
HasSidLenient(resp) == resp.kind = "data"

\* `response["sid"]` of line 75 can be evaluated.
HasSid(resp) == resp.kind = "data" /\ resp.data.hasSid

HttpInit(w) ==
    /\ sid = None
    /\ stack = [t \in Threads |-> <<>>]
    /\ log = [t \in Threads |-> <<>>]
    /\ outcome = [t \in Threads |-> NoOutcome]
    /\ req = [t \in Threads |-> [restricted |-> FALSE, errors |-> "none", stream |-> FALSE,
                               sid0 |-> None, afterExhausted |-> FALSE]]
    /\ calls = 0
    /\ world = w

\* No configuration has been fetched and no WiFiConfigManager built.
NoManagers ==
    /\ objs = <<>>
    /\ held = <<>>
    /\ built = <<>>
    /\ touched = {}
    /\ layout = <<>>

\* No switch handler runs.
NoCycles ==
    /\ router = Config(FALSE, <<>>)
    /\ cycle = <<>>
    /\ pushes = <<>>

\* What an operation returned: None, a bool, the profile or radio found (by
\* its position), a list, the configuration dict, or the exception raised.
Ret(k, b, n) == [kind |-> k, flag |-> b, pos |-> n]
RetNone == Ret("None", FALSE, 0)
RetBool(b) == Ret("bool", b, 0)
RetFound(k, n) == IF n = 0 THEN RetNone ELSE Ret(k, FALSE, n)
RetList == Ret("list", FALSE, 0)
RetDict == Ret("dict", FALSE, 0)
RetRaised(exc) == Ret(exc, FALSE, 0)

\* An operation as invoked: `arg` is the kind of argument handed to
\* set_network_setting, `times` counts the invocations with these arguments,
\* ret1 and post1 keep the return value and the configuration of the first of
\* two.
Invocation(op, pid, rt, en, arg, ret, n, ret1, post1) ==
    [op |-> op, profile_id |-> pid, radio_type |-> rt, enabled |-> en, arg |-> arg,
     ret |-> ret, times |-> n, ret1 |-> ret1, post1 |-> post1]

NoCall == Invocation("none", 0, "", FALSE, "", RetNone, 0, RetNone, Config(FALSE, <<>>))

\* A switch handler or a service as it ran. `mode` is how a service was
\* addressed (by network name, by profile and radio, or neither); `fetched`
\* and `got` are the closure's get and what it returned; `applied` is what the
\* mutation returned; `issued` tells that set_wifi_network_setting was
\* called, `pushed` that it reached the router, with profiles `sent`; `ended`
\* is how the closure ended and `refresh` whether the handler went on to
\* ask the coordinator for a refresh.
Service(path, mode, pid, rt, name, en, fetched, got, applied, issued, pushed, sent, ended, refresh) ==
    [path |-> path, mode |-> mode, profile_id |-> pid, radio_type |-> rt,
     network_name |-> name, enabled |-> en, fetched |-> fetched, got |-> got,
     applied |-> applied, issued |-> issued, pushed |-> pushed, sent |-> sent,
     ended |-> ended, refresh |-> refresh]

NoService ==
    Service("none", "", 0, "", "", FALSE, FALSE, Config(FALSE, <<>>), FALSE, FALSE, FALSE,
            <<>>, "", FALSE)

NoCalls == last = NoCall /\ svc = NoService

Init ==
    /\ HttpInit([callers |-> {1}, restricted |-> BOOLEAN, errors |-> {"none", "custom"},
                 stream |-> BOOLEAN, answers |-> Answers])
    /\ NoManagers
    /\ NoCycles
    /\ NoCalls

\* Two executor threads making restricted calls on one Http instance, against
\* a server that keeps to the protocol.
InitConc ==
    /\ HttpInit([callers |-> Threads, restricted |-> {TRUE}, errors |-> {"none"},
                 stream |-> {FALSE}, answers |-> ProtocolAnswers])
    /\ NoManagers
    /\ NoCycles
    /\ NoCalls

\* The server answered the request with success=false and error code c.
IsCodeAnswer(a, c) ==
    /\ a.net = "ok" /\ a.status = 200 /\ ~a.zip /\ a.json
    /\ a.body.hasSuccess /\ ~a.body.success
    /\ a.body.hasError /\ a.body.hasCode /\ a.body.code = c

IsExpiryAnswer(a) == IsCodeAnswer(a, 106) \/ IsCodeAnswer(a, 107)

\* The logical call that thread t made last ended on its retried request
\* being answered 106 or 107 (lines 148-155).
ExhaustedRetry(t) ==
    /\ stack[t] = <<>> /\ outcome[t].act = "raise"
    /\ log[t] # <<>>
    /\ log[t][Len(log[t])].ev = "request"
    /\ ~log[t][Len(log[t])].login /\ log[t][Len(log[t])].retried
    /\ IsExpiryAnswer(log[t][Len(log[t])].ans)

\* Variant of lines 121-186 that drops the session when the call fails.
SidClearedOnFailure(s, r) == IF r.act = "raise" THEN None ELSE s

\* self.sid after lines 108-186 handled an answer as r: no statement there
\* assigns it.
SidAfterRequest(s, r) == s

\* A caller invokes Http.call on thread t (retried is left at its default).
\* `afterExhausted` notes how the thread's call before it ended.
StartCall(t) ==
    \E restricted \in world.restricted, errors \in world.errors, stream \in world.stream :
        /\ t \in world.callers
        /\ stack[t] = <<>>
        /\ calls < MaxCalls
        /\ calls' = calls + 1
        /\ stack' = [stack EXCEPT ![t] =
                        <<Streamed(CallFrame(FALSE, errors, restricted, FALSE), stream)>>]
        /\ log' = [log EXCEPT ![t] = <<>>]
        /\ outcome' = [outcome EXCEPT ![t] = NoOutcome]
        /\ req' = [req EXCEPT ![t] = [restricted |-> restricted, errors |-> errors,
                                       stream |-> stream, sid0 |-> sid,
                                       afterExhausted |-> ExhaustedRetry(t)]]
        /\ UNCHANGED <<sid, world, modelVars, cycleVars, opVars>>

\* Lines 101-102: log in first when the call needs a session and there is none.
CheckSession(t) ==
    /\ stack[t] # <<>>
    /\ Top(stack[t]).fn = "call"
    /\ Top(stack[t]).pc = "check"
    /\ LET f == Top(stack[t])
           next == SetTop(stack[t], [f EXCEPT !.pc = "cookie"])
       IN  stack' = [stack EXCEPT ![t] = IF NeedsLogin(f, sid) THEN next \o LoginFrames ELSE next]
    /\ UNCHANGED <<sid, log, outcome, req, calls, world, modelVars, cycleVars, opVars>>

\* Lines 104-106: the cookie is the session id stored at this moment.
BuildCookies(t) ==
    /\ stack[t] # <<>>
    /\ Top(stack[t]).fn = "call"
    /\ Top(stack[t]).pc = "cookie"
    /\ stack' = [stack EXCEPT ![t] =
                    SetTop(stack[t], [Top(stack[t]) EXCEPT !.pc = "request", !.cookie = CookieOf(sid)])]
    /\ UNCHANGED <<sid, log, outcome, req, calls, world, modelVars, cycleVars, opVars>>

\* Lines 108-186: the request goes out, the server answers, and the frame
\* raises, returns, or logs in again to retry.
Request(t) ==
    /\ stack[t] # <<>>
    /\ Top(stack[t]).fn = "call"
    /\ Top(stack[t]).pc = "request"
    /\ \E a \in world.answers :
        LET f == Top(stack[t])
            r == HandleResponse(f, a)
            back == ReturnTo(Pop(stack[t]), r.value)
        IN  /\ log' = [log EXCEPT ![t] = Append(@, Event("request", f, a, sid, sid))]
            /\ sid' = SidAfterRequest(sid, r)
            /\ stack' = [stack EXCEPT ![t] =
                   CASE r.act = "raise" -> <<>>
                     [] r.act = "return" -> back
                     [] OTHER -> SetTop(stack[t], [f EXCEPT !.pc = "retry"]) \o LoginFrames]
            /\ outcome' = [outcome EXCEPT ![t] =
                   CASE r.act = "raise" -> r
                     [] r.act = "return" /\ back = <<>> -> r
                     [] OTHER -> @]
    /\ UNCHANGED <<req, calls, world, modelVars, cycleVars, opVars>>

\* Line 75 of _login: self.sid = response["sid"].
StoreSid(t) ==
    /\ stack[t] # <<>>
    /\ Top(stack[t]).fn = "_login"
    /\ Top(stack[t]).pc = "store"
    /\ LET f == Top(stack[t]) IN
       IF HasSid(f.resp)
       THEN /\ sid' = f.resp.data.sid
            /\ stack' = [stack EXCEPT ![t] = Pop(stack[t])]
            /\ log' = [log EXCEPT ![t] = Append(@, Event("store", f, NoAnswer, sid, f.resp.data.sid))]
            /\ UNCHANGED outcome
       ELSE /\ stack' = [stack EXCEPT ![t] = <<>>]
            /\ outcome' = [outcome EXCEPT ![t] =
                   Raise(IF f.resp.kind = "data" THEN "KeyError" ELSE "TypeError", "sid")]
            /\ UNCHANGED <<sid, log>>
    /\ UNCHANGED <<req, calls, world, modelVars, cycleVars, opVars>>

\* Lines 158-167, after the _login of line 156 returned: the same call again,
\* with retried=True.
Retry(t) ==
    /\ stack[t] # <<>>
    /\ Top(stack[t]).fn = "call"
    /\ Top(stack[t]).pc = "retry"
    /\ stack' = [stack EXCEPT ![t] =
                    SetTop(stack[t], [Top(stack[t]) EXCEPT !.pc = "tail"])
                    \o <<RetryFrame(Top(stack[t]))>>]
    /\ UNCHANGED <<sid, log, outcome, req, calls, world, modelVars, cycleVars, opVars>>

\* --------------------------------------------------- configuration managers
\* The dict objects: one per fetch; CopyOf is the object a copying constructor
\* would make.
Fetched(k) == <<"fetched", k>>
CopyOf(m) == <<"copy", m>>

\* Variant of line 14 that stores a copy of the dict.
ManagerInitCopy(m, config) == CopyOf(m)

\* WiFiConfigManager.__init__, line 14: `self.config = config` keeps the
\* caller's dict.
ManagerInit(m, config) == config

\* Managers built from the dicts `from` gives them; these dicts and the
\* dicts `others` all hold c.
ManagersBuilt(from, others, c) ==
    /\ built = from
    /\ held = [m \in DOMAIN from |-> ManagerInit(m, from[m])]
    /\ objs = [o \in {from[m] : m \in DOMAIN from}
                      \cup {ManagerInit(m, from[m]) : m \in DOMAIN from}
                      \cup others |-> c]
    /\ touched = {}
    /\ layout = [m \in DOMAIN from |-> SwitchesOf(GetNetworkSummary(c))]

\* One manager on one fetched configuration, any configuration.
InitModel ==
    /\ HttpInit([callers |-> {}, restricted |-> {}, errors |-> {}, stream |-> {},
              answers |-> {}])
    /\ \E c \in Configs : ManagersBuilt(<<Fetched(1)>>, {}, c)
    /\ NoCycles
    /\ NoCalls

\* The configuration the coordinator polled: no manager that mutates is ever
\* built from it.
Polled == Fetched(0)

\* The configurations of at most one profile.
SmallConfigs == {c \in Configs : Len(GetProfiles(c)) <= 1}

\* Managers 1 and 2 built from one fetched dict and manager 3 from another,
\* all fetched while the router held the configuration the coordinator polled.
InitShared ==
    /\ HttpInit([callers |-> {}, restricted |-> {}, errors |-> {}, stream |-> {},
              answers |-> {}])
    /\ \E c \in SmallConfigs :
           ManagersBuilt(<<Fetched(1), Fetched(1), Fetched(2)>>, {Polled}, c)
    /\ NoCycles
    /\ NoCalls

\* manager.toggle_smart_connect(profile_id, enabled) on manager m.
DoToggleSmartConnect(m) ==
    \E profile_id \in ProfileArgs, enabled \in BOOLEAN :
        /\ objs' = [objs EXCEPT ![held[m]] = ToggleSmartConnect(@, profile_id, enabled)]
        /\ touched' = IF ToggleSmartConnectReturns(GetConfig(m), profile_id)
                      THEN touched \cup {m} ELSE touched
        /\ UNCHANGED <<held, built, layout, httpVars, cycleVars, opVars>>

\* manager.enable_radio(profile_id, radio_type, enabled) on manager m.
DoEnableRadio(m) ==
    \E profile_id \in ProfileArgs, radio_type \in RadioTypes, enabled \in BOOLEAN :
        /\ objs' = [objs EXCEPT ![held[m]] = EnableRadio(@, profile_id, radio_type, enabled)]
        /\ touched' = IF EnableRadioReturns(GetConfig(m), profile_id, radio_type)
                      THEN touched \cup {m} ELSE touched
        /\ UNCHANGED <<held, built, layout, httpVars, cycleVars, opVars>>

NextModel ==
    \/ \E m \in DOMAIN held : DoToggleSmartConnect(m)
    \/ \E m \in DOMAIN held : DoEnableRadio(m)

SpecModel == InitModel /\ [][NextModel]_vars

SpecShared == InitShared /\ [][NextModel]_vars

\* ------------------------------------------------------------ toggle cycles
\* A switch entity's handler (async_turn_on / async_turn_off of switch.py)
\* runs its closure on an executor thread: fetch the configuration, build a
\* manager, mutate, push the manager's configuration.
Target(pid, rt, en) == [profile_id |-> pid, radio_type |-> rt, enabled |-> en]

\* What the handlers of the switches set up from configuration c can ask for.
TargetsOf(c) ==
    {Target(GetNetworkSummary(c)[k].profile_id, GetNetworkSummary(c)[k].radio_type, en) :
        k \in DOMAIN GetNetworkSummary(c), en \in BOOLEAN}

\* Variant of the handlers that pushes what it fetched.
ApplyTargetSkipped(config, tgt) == config

\* The mutation of the handler: toggle_smart_connect for the toggle switch
\* (lines 131, 149), enable_radio for a radio switch (lines 275, 293).
ApplyTarget(config, tgt) ==
    IF tgt.radio_type = "smart_connect_toggle"
    THEN ToggleSmartConnect(config, tgt.profile_id, tgt.enabled)
    ELSE EnableRadio(config, tgt.profile_id, tgt.radio_type, tgt.enabled)

ApplyTargetReturns(config, tgt) ==
    IF tgt.radio_type = "smart_connect_toggle"
    THEN ToggleSmartConnectReturns(config, tgt.profile_id)
    ELSE EnableRadioReturns(config, tgt.profile_id, tgt.radio_type)

\* Variant of wifi.py lines 37-50 that sends the first profile alone.
PushedFirstProfile(config) == Config(TRUE, SubSeq(config.profiles, 1, 1))

\* What the router holds after set_network_setting(config): the call sends
\* config["profiles"] whole and the router replaces its profiles with them.
Pushed(config) == Config(TRUE, config.profiles)

\* The configurations with Smart Connect and every radio off.
QuietConfigs ==
    {c \in Configs :
        \A i \in DOMAIN GetProfiles(c) :
            /\ GetProfiles(c)[i].hasSc /\ ~GetProfiles(c)[i].sc
            /\ \A r \in DOMAIN GetProfiles(c)[i].radio_list :
                   ~GetProfiles(c)[i].radio_list[r].enable}

\* A handler about to run for target tgt. `issued` lists the client calls its
\* closure has made, `got` is what its get returned (when `fetched` is set),
\* `sent` the profiles its set handed to the router.
IdleCycle(tgt) ==
    [pc |-> "idle", target |-> tgt, seen |-> 0, issued |-> <<>>,
     fetched |-> FALSE, got |-> Config(FALSE, <<>>), sent |-> <<>>]

\* The dict the coordinator holds after the refresh a handler asked for.
Refreshed == Fetched(Cardinality(Threads) + 1)

\* The router holds the configuration the coordinator polled at setup; each
\* executor thread is about to run the handler of one of the switches.
InitToggle ==
    /\ HttpInit([callers |-> {}, restricted |-> {}, errors |-> {}, stream |-> {},
              answers |-> {}])
    /\ \E c \in QuietConfigs :
           /\ router = c
           /\ objs = [o \in {Polled} |-> c]
           /\ cycle \in [Threads -> {IdleCycle(tgt) : tgt \in TargetsOf(c)}]
    /\ held = <<>>
    /\ built = <<>>
    /\ touched = {}
    /\ layout = <<>>
    /\ pushes = <<>>
    /\ NoCalls

\* Lines 273-275 of the closure: get_wifi_network_setting answers with what
\* the router holds, a manager is built from it and mutated. `seen` notes how
\* many pushes the router had taken by then.
CycleFetch(t) ==
    /\ cycle[t].pc = "idle"
    /\ LET snapshot == Fetched(t)
           mine == ManagerInit(t, snapshot)
       IN  /\ objs' = [o \in DOMAIN objs \cup {snapshot, mine} |->
                          IF o = mine THEN ApplyTarget(router, cycle[t].target)
                          ELSE IF o = snapshot THEN router
                          ELSE objs[o]]
           /\ held' = [m \in DOMAIN held \cup {t} |-> IF m = t THEN mine ELSE held[m]]
           /\ built' = [m \in DOMAIN built \cup {t} |-> IF m = t THEN snapshot ELSE built[m]]
    /\ touched' = IF ApplyTargetReturns(router, cycle[t].target)
                  THEN touched \cup {t} ELSE touched
    /\ cycle' = [cycle EXCEPT ![t].pc = "fetched", ![t].seen = Len(pushes),
                              ![t].issued = Append(@, "get"),
                              ![t].fetched = TRUE, ![t].got = router]
    /\ UNCHANGED <<layout, router, pushes, httpVars, opVars>>

\* Lines 276-278: set_wifi_network_setting(manager.get_config()). A dict
\* without "profiles" raises ValueError (wifi.py line 42), which the handler
\* logs.
CyclePush(t) ==
    /\ cycle[t].pc = "fetched"
    /\ IF GetConfig(t).hasProfiles
       THEN /\ router' = Pushed(GetConfig(t))
            /\ pushes' = Append(pushes, t)
            /\ cycle' = [cycle EXCEPT ![t].pc = "pushed", ![t].issued = Append(@, "set"),
                                      ![t].sent = Pushed(GetConfig(t)).profiles]
       ELSE /\ cycle' = [cycle EXCEPT ![t].pc = "failed", ![t].issued = Append(@, "set")]
            /\ UNCHANGED <<router, pushes>>
    /\ UNCHANGED <<modelVars, httpVars, opVars>>

\* Either network call raises before it reaches the router; the handler logs
\* the error (lines 283-284).
CycleFail(t) ==
    /\ cycle[t].pc \in {"idle", "fetched"}
    /\ cycle' = [cycle EXCEPT ![t].pc = "failed",
                              ![t].issued = Append(@, IF cycle[t].pc = "idle" THEN "get" ELSE "set")]
    /\ UNCHANGED <<router, pushes, modelVars, httpVars, opVars>>

\* Lines 137, 155, 281, 299: after the closure returned, the handler asks the
\* coordinator for a refresh, which polls the router (__init__.py line 110)
\* and keeps what it got.
CycleRefresh(t) ==
    /\ cycle[t].pc = "pushed"
    /\ cycle' = [cycle EXCEPT ![t].pc = "refreshed"]
    /\ objs' = [o \in DOMAIN objs \cup {Refreshed} |-> IF o = Refreshed THEN router ELSE objs[o]]
    /\ UNCHANGED <<held, built, touched, layout, router, pushes, httpVars, opVars>>

NextToggle ==
    \/ \E t \in Threads : CycleFetch(t)
    \/ \E t \in Threads : CyclePush(t)
    \/ \E t \in Threads : CycleFail(t)
    \/ \E t \in Threads : CycleRefresh(t)

SpecToggle == InitToggle /\ [][NextToggle]_vars

\* ------------------------------------------------------- direct invocations
\* A caller holds one manager, built from a configuration it has just
\* fetched from the router, and invokes one operation on it; a mutation may
\* be invoked a second time with the same arguments. The coordinator's
\* polled dict holds the same configuration and is never mutated.
\* Smart Connect and every radio of the profile are off.
QuietProfile(profile) ==
    /\ profile.hasSc /\ ~profile.sc
    /\ \A r \in DOMAIN profile.radio_list : ~profile.radio_list[r].enable

\* The configurations in which at most one profile is not quiet.
OpConfigs ==
    {c \in Configs :
        Cardinality({i \in DOMAIN GetProfiles(c) : ~QuietProfile(GetProfiles(c)[i])}) <= 1}

InitOps ==
    /\ HttpInit([callers |-> {}, restricted |-> {}, errors |-> {}, stream |-> {},
              answers |-> {}])
    /\ \E c \in OpConfigs :
           /\ ManagersBuilt(<<Fetched(1)>>, {Polled}, c)
           /\ router = c
    /\ cycle = <<>>
    /\ pushes = <<>>
    /\ NoCalls

\* The invocation is the first, or repeats the one before it.
MayInvoke(op, pid, rt, en) ==
    \/ last = NoCall
    \/ /\ last.times = 1
       /\ last.op = op /\ last.profile_id = pid
       /\ last.radio_type = rt /\ last.enabled = en

Invoked(m, op, pid, rt, en, ret) ==
    Invocation(op, pid, rt, en, "", ret, last.times + 1, last.ret,
               IF last.times = 0 THEN last.post1 ELSE GetConfig(m))

\* manager.toggle_smart_connect(profile_id, enabled), lines 92-103.
CallToggleSmartConnect(m) ==
    \E profile_id \in ProfileArgs, enabled \in BOOLEAN :
        /\ MayInvoke("toggle_smart_connect", profile_id, "", enabled)
        /\ objs' = [objs EXCEPT ![held[m]] = ToggleSmartConnect(@, profile_id, enabled)]
        /\ touched' = IF ToggleSmartConnectReturns(GetConfig(m), profile_id)
                      THEN touched \cup {m} ELSE touched
        /\ last' = Invoked(m, "toggle_smart_connect", profile_id, "", enabled,
                           RetBool(ToggleSmartConnectReturns(GetConfig(m), profile_id)))
        /\ UNCHANGED <<held, built, layout, httpVars, cycleVars, svc>>

\* manager.enable_radio(profile_id, radio_type, enabled), lines 105-114.
CallEnableRadio(m) ==
    \E profile_id \in ProfileArgs, radio_type \in RadioTypes, enabled \in BOOLEAN :
        /\ MayInvoke("enable_radio", profile_id, radio_type, enabled)
        /\ objs' = [objs EXCEPT ![held[m]] = EnableRadio(@, profile_id, radio_type, enabled)]
        /\ touched' = IF EnableRadioReturns(GetConfig(m), profile_id, radio_type)
                      THEN touched \cup {m} ELSE touched
        /\ last' = Invoked(m, "enable_radio", profile_id, radio_type, enabled,
                           RetBool(EnableRadioReturns(GetConfig(m), profile_id, radio_type)))
        /\ UNCHANGED <<held, built, layout, httpVars, cycleVars, svc>>

\* A method that assigns nothing: only its return value is noted.
Query(m, op, pid, rt, ret) ==
    /\ last = NoCall
    /\ last' = Invoked(m, op, pid, rt, FALSE, ret)
    /\ UNCHANGED <<modelVars, httpVars, cycleVars, svc>>

\* The read-only methods of WiFiConfigManager, lines 16-90 and 116-141.
CallGetProfiles(m) == Query(m, "get_profiles", 0, "", RetList)

CallGetProfileById(m) ==
    \E pid \in ProfileArgs :
        Query(m, "get_profile_by_id", pid, "",
              RetFound("profile", GetProfileById(GetConfig(m), pid)))

CallGetRadioByType(m) ==
    \E pid \in ProfileArgs, rt \in RadioTypes :
        Query(m, "get_radio_by_type", pid, rt,
              RetFound("radio", GetRadioByType(GetConfig(m), pid, rt)))

CallGetNetworkSummary(m) == Query(m, "get_network_summary", 0, "", RetList)

CallGetConfig(m) == Query(m, "get_config", 0, "", RetDict)

CallIsSmartConnectEnabled(m) ==
    \E pid \in ProfileArgs :
        Query(m, "is_smart_connect_enabled", pid, "",
              RetBool(IsSmartConnectEnabled(GetConfig(m), pid)))

CallIsRadioAvailable(m) ==
    \E pid \in ProfileArgs, rt \in RadioTypes :
        Query(m, "is_radio_available", pid, rt,
              RetBool(IsRadioAvailable(GetConfig(m), pid, rt)))

CallIsRadioEnabled(m) ==
    \E pid \in ProfileArgs, rt \in RadioTypes :
        Query(m, "is_radio_enabled", pid, rt,
              RetBool(IsRadioEnabled(GetConfig(m), pid, rt)))

\* What a caller may hand to set_network_setting: a configuration dict, a
\* list of profiles, or something that is neither (None).
Argument(kind, hp, ps) == [kind |-> kind, hasProfiles |-> hp, profiles |-> ps]

ArgumentsFrom(config) ==
    {Argument("dict", config.hasProfiles, config.profiles),
     Argument("list", FALSE, GetProfiles(config)),
     Argument("other", FALSE, <<>>)}

\* Variant of lines 37-42 that takes a dict without "profiles" as an empty
\* profile list.
AcceptsAnyDict(arg) == arg.kind \in {"dict", "list"}

\* ApiWifi.set_network_setting, lines 37-42: the argument passes.
Accepts(arg) ==
    \/ arg.kind = "dict" /\ arg.hasProfiles
    \/ arg.kind = "list"

\* client.set_wifi_network_setting(arg): a rejected argument raises
\* ValueError before Http.call; otherwise the call is made and either the
\* router takes the profile list or the call fails on the way.
CallSetNetworkSetting(m) ==
    \E arg \in ArgumentsFrom(GetConfig(m)), reached \in BOOLEAN :
        /\ last = NoCall
        /\ IF ~Accepts(arg)
           THEN /\ reached
                /\ last' = Invocation("set_network_setting", 0, "", FALSE, arg.kind,
                                      RetRaised("ValueError"), 1, RetNone, last.post1)
                /\ UNCHANGED <<router, pushes>>
           ELSE IF reached
           THEN /\ router' = Config(TRUE, arg.profiles)
                /\ pushes' = Append(pushes, m)
                /\ last' = Invocation("set_network_setting", 0, "", FALSE, arg.kind,
                                      RetBool(TRUE), 1, RetNone, last.post1)
           ELSE /\ last' = Invocation("set_network_setting", 0, "", FALSE, arg.kind,
                                      RetRaised("OSError"), 1, RetNone, last.post1)
                /\ UNCHANGED <<router, pushes>>
        /\ UNCHANGED <<modelVars, httpVars, cycle, svc>>

NextOps ==
    \/ \E m \in DOMAIN held : CallToggleSmartConnect(m)
    \/ \E m \in DOMAIN held : CallEnableRadio(m)
    \/ \E m \in DOMAIN held : CallGetProfiles(m)
    \/ \E m \in DOMAIN held : CallGetProfileById(m)
    \/ \E m \in DOMAIN held : CallGetRadioByType(m)
    \/ \E m \in DOMAIN held : CallGetNetworkSummary(m)
    \/ \E m \in DOMAIN held : CallGetConfig(m)
    \/ \E m \in DOMAIN held : CallIsSmartConnectEnabled(m)
    \/ \E m \in DOMAIN held : CallIsRadioAvailable(m)
    \/ \E m \in DOMAIN held : CallIsRadioEnabled(m)
    \/ \E m \in DOMAIN held : CallSetNetworkSetting(m)

SpecOps == InitOps /\ [][NextOps]_vars

\* ------------------------------------------------- handlers and services
\* The SSIDs a service may be given: those of the radio lists and one that
\* no radio has.
NetworkNames == {"Home", "Guest", "Other"}

\* Position <<i, k>> comes no later than <<j, l>> in the scan of lines
\* 120-122: profiles in order, then the radios of a profile in order.
ScannedBefore(ik, jl) == ik[1] < jl[1] \/ (ik[1] = jl[1] /\ ik[2] <= jl[2])

\* The radios of config whose ssid is network_name, by position.
NameMatches(config, network_name) ==
    UNION {{<<i, k>> : k \in {k \in DOMAIN GetProfiles(config)[i].radio_list :
                                GetProfiles(config)[i].radio_list[k].ssid = network_name}} :
           i \in DOMAIN GetProfiles(config)}

\* Line 123: is_radio_available(profile["id"], radio["radio_type"]).
MatchAvailable(config, ik) ==
    IsRadioAvailable(config, GetProfiles(config)[ik[1]].id,
                     GetProfiles(config)[ik[1]].radio_list[ik[2]].radio_type)

\* Variant of the scan that stops at the first radio with the name, available
\* or not.
NetworkByNameFirstNamed(config, network_name) ==
    LET named == NameMatches(config, network_name) IN
    IF named = {} THEN <<0, 0>>
    ELSE LET first == CHOOSE ik \in named : \A jl \in named : ScannedBefore(ik, jl)
         IN  IF MatchAvailable(config, first) THEN first ELSE <<0, 0>>

\* The scan of _enable_network_by_name / _disable_network_by_name
\* (__init__.py lines 118-139): the position of the first radio with that ssid
\* that is available, <<0, 0>> when the loops run out.
NetworkByName(config, network_name) ==
    LET hits == {ik \in NameMatches(config, network_name) : MatchAvailable(config, ik)} IN
    IF hits = {} THEN <<0, 0>>
    ELSE CHOOSE ik \in hits : \A jl \in hits : ScannedBefore(ik, jl)

\* _enable_network_by_name (enabled = TRUE) and _disable_network_by_name
\* (enabled = FALSE): what they return and what they leave in the dict.
SetNetworkByNameReturns(config, network_name) ==
    NetworkByName(config, network_name) # <<0, 0>>

SetNetworkByName(config, network_name, enabled) ==
    LET ik == NetworkByName(config, network_name) IN
    IF ik = <<0, 0>> THEN config
    ELSE EnableRadio(config, GetProfiles(config)[ik[1]].id,
                     GetProfiles(config)[ik[1]].radio_list[ik[2]].radio_type, enabled)

\* The data of a service call: network_name ("" when absent), profile_id
\* (absent when hasId is false) and radio_type ("" when absent).
ServiceData(name, hasId, pid, rt) ==
    [network_name |-> name, hasId |-> hasId, profile_id |-> pid, radio_type |-> rt]

ServiceCalls ==
    {ServiceData(name, FALSE, 0, "") : name \in NetworkNames}
    \cup {ServiceData("", TRUE, pid, rt) : pid \in ProfileArgs, rt \in RadioTypes}
    \cup {ServiceData("Home", TRUE, 1, "5G-2"), ServiceData("", TRUE, 1, ""),
          ServiceData("", FALSE, 0, "2.4G"), ServiceData("", FALSE, 0, "")}

\* Lines 161-169 and 192-200: the name when given, else profile and radio
\* when both are given, else nothing to do.
ModeOf(data) ==
    IF data.network_name # "" THEN "name"
    ELSE IF data.hasId /\ data.radio_type # "" THEN "radio"
    ELSE "neither"

\* Variant of the closures of the enable_wifi and disable_wifi services that
\* goes on to the set whatever the checks said.
GoesOnAlways(path, mode, config, pid, rt, name) == TRUE

\* Whether the closure reaches its set_wifi_network_setting: the switch
\* handlers and the toggle_smart_connect service always do (switch.py lines
\* 131-135, 275-279; __init__.py lines 220-221), the enable_wifi and
\* disable_wifi services return False first when the name resolved to
\* nothing, when the radio is not available, or when nothing was asked
\* (lines 161-169).
GoesOn(path, mode, config, pid, rt, name) ==
    IF path \in {"enable_wifi", "disable_wifi"}
    THEN CASE mode = "name" -> SetNetworkByNameReturns(config, name)
           [] mode = "radio" -> IsRadioAvailable(config, pid, rt)
           [] OTHER -> FALSE
    ELSE TRUE

\* The dict after the closure's mutation, and what the mutation returned.
Mutated(path, mode, config, pid, rt, name, en) ==
    IF path \in {"toggle_switch", "toggle_smart_connect"}
    THEN ToggleSmartConnect(config, pid, en)
    ELSE IF mode = "name" THEN SetNetworkByName(config, name, en)
    ELSE IF mode = "radio" THEN EnableRadio(config, pid, rt, en)
    ELSE config

MutationReturns(path, mode, config, pid, rt, name) ==
    IF path \in {"toggle_switch", "toggle_smart_connect"}
    THEN ToggleSmartConnectReturns(config, pid)
    ELSE IF mode = "name" THEN SetNetworkByNameReturns(config, name)
    ELSE IF mode = "radio" THEN EnableRadioReturns(config, pid, rt)
    ELSE FALSE

\* One run of a handler: the closure on the executor (get, manager, mutation,
\* set) and the refresh request that follows when the closure returned.
\* getOk and setOk tell whether the get and the set come back or raise.
RunHandler(path, mode, pid, rt, name, en, getOk, setOk) ==
    /\ svc = NoService
    /\ IF ~getOk
       THEN /\ svc' = Service(path, mode, pid, rt, name, en, FALSE, Config(FALSE, <<>>),
                              FALSE, FALSE, FALSE, <<>>, "raised", FALSE)
            /\ UNCHANGED <<router, pushes>>
       ELSE LET config == Mutated(path, mode, router, pid, rt, name, en)
                applied == MutationReturns(path, mode, router, pid, rt, name)
            IN  IF ~GoesOn(path, mode, router, pid, rt, name)
                THEN /\ svc' = Service(path, mode, pid, rt, name, en, TRUE, router,
                                       FALSE, FALSE, FALSE, <<>>, "False", TRUE)
                     /\ UNCHANGED <<router, pushes>>
                ELSE IF ~Accepts(Argument("dict", config.hasProfiles, config.profiles))
                        \/ ~setOk
                THEN /\ svc' = Service(path, mode, pid, rt, name, en, TRUE, router,
                                       applied, TRUE, FALSE, <<>>, "raised", FALSE)
                     /\ UNCHANGED <<router, pushes>>
                ELSE /\ router' = Pushed(config)
                     /\ pushes' = Append(pushes, 1)
                     /\ svc' = Service(path, mode, pid, rt, name, en, TRUE, router,
                                       applied, TRUE, TRUE, Pushed(config).profiles,
                                       "returned", TRUE)
    /\ UNCHANGED <<modelVars, httpVars, cycle, last>>

\* SynologyWiFiRadioSwitch.async_turn_on / async_turn_off, switch.py lines
\* 268-302. The entity was set up from an earlier poll: its profile and radio
\* need not be in what the router holds now.
RadioSwitchTurnOn ==
    \E pid \in 1..MaxProfiles, rt \in RadioTypes, getOk \in BOOLEAN, setOk \in BOOLEAN :
        RunHandler("radio_switch", "radio", pid, rt, "", TRUE, getOk, setOk)

RadioSwitchTurnOff ==
    \E pid \in 1..MaxProfiles, rt \in RadioTypes, getOk \in BOOLEAN, setOk \in BOOLEAN :
        RunHandler("radio_switch", "radio", pid, rt, "", FALSE, getOk, setOk)

\* SynologySmartConnectToggleSwitch.async_turn_on / async_turn_off, lines
\* 124-158.
ToggleSwitchTurnOn ==
    \E pid \in 1..MaxProfiles, getOk \in BOOLEAN, setOk \in BOOLEAN :
        RunHandler("toggle_switch", "", pid, "", "", TRUE, getOk, setOk)

ToggleSwitchTurnOff ==
    \E pid \in 1..MaxProfiles, getOk \in BOOLEAN, setOk \in BOOLEAN :
        RunHandler("toggle_switch", "", pid, "", "", FALSE, getOk, setOk)

\* The enable_wifi and disable_wifi services, __init__.py lines 145-205.
ServiceEnableWifi ==
    \E data \in ServiceCalls, getOk \in BOOLEAN, setOk \in BOOLEAN :
        RunHandler("enable_wifi", ModeOf(data), data.profile_id, data.radio_type,
                   data.network_name, TRUE, getOk, setOk)

ServiceDisableWifi ==
    \E data \in ServiceCalls, getOk \in BOOLEAN, setOk \in BOOLEAN :
        RunHandler("disable_wifi", ModeOf(data), data.profile_id, data.radio_type,
                   data.network_name, FALSE, getOk, setOk)

\* The toggle_smart_connect service, lines 207-228: without a profile_id it
\* returns at once (lines 212-213).
ServiceToggleSmartConnect ==
    \E hasId \in BOOLEAN, pid \in ProfileArgs, enable \in BOOLEAN,
       getOk \in BOOLEAN, setOk \in BOOLEAN :
        IF hasId
        THEN RunHandler("toggle_smart_connect", "", pid, "", "", enable, getOk, setOk)
        ELSE /\ svc = NoService
             /\ svc' = Service("toggle_smart_connect", "neither", 0, "", "", enable, FALSE,
                               Config(FALSE, <<>>), FALSE, FALSE, FALSE, <<>>, "returned", FALSE)
             /\ UNCHANGED <<router, pushes, modelVars, httpVars, cycle, last>>

\* The router holds some configuration when a handler or a service runs.
InitService ==
    /\ HttpInit([callers |-> {}, restricted |-> {}, errors |-> {}, stream |-> {},
              answers |-> {}])
    /\ NoManagers
    /\ router \in OpConfigs
    /\ cycle = <<>>
    /\ pushes = <<>>
    /\ NoCalls

NextService ==
    \/ RadioSwitchTurnOn
    \/ RadioSwitchTurnOff
    \/ ToggleSwitchTurnOn
    \/ ToggleSwitchTurnOff
    \/ ServiceEnableWifi
    \/ ServiceDisableWifi
    \/ ServiceToggleSmartConnect

SpecService == InitService /\ [][NextService]_vars

Next ==
    \/ \E t \in Threads : StartCall(t)
    \/ \E t \in Threads : CheckSession(t)
    \/ \E t \in Threads : BuildCookies(t)
    \/ \E t \in Threads : Request(t)
    \/ \E t \in Threads : StoreSid(t)
    \/ \E t \in Threads : Retry(t)

Spec == Init /\ [][Next]_vars

SpecConc == InitConc /\ [][Next]_vars

\* A thread inside Http.call keeps running: no statement of call or _login
\* waits on another thread, and requests.get has timeout=5 (line 118), so
\* every request is answered or times out.
Step(t) == CheckSession(t) \/ BuildCookies(t) \/ Request(t) \/ StoreSid(t) \/ Retry(t)

SpecLive == Init /\ [][Next]_vars /\ \A t \in Threads : WF_vars(Step(t))

\* ------------------------------------------------------- reading the log
\* The logical call of thread t has ended.
Done(t) == stack[t] = <<>> /\ outcome[t].act # "none"

\* Positions in the log of t: the login requests, the other requests, the stores.
LoginRequests(t) == {i \in DOMAIN log[t] : log[t][i].ev = "request" /\ log[t][i].login}
CallRequests(t) == {i \in DOMAIN log[t] : log[t][i].ev = "request" /\ ~log[t][i].login}
Stores(t) == {i \in DOMAIN log[t] : log[t][i].ev = "store"}

\* The login whose request is entry i succeeded: its store is the next entry.
LoginSucceeded(t, i) == i + 1 \in Stores(t)

\* The request of entry i ended the logical call of t with a failure.
EndsCall(t, i) == i = Len(log[t]) /\ stack[t] = <<>> /\ outcome[t].act = "raise"

\* The sid stored by the most recent successful login before entry i of the
\* log of t: the last store of this call, or else what earlier calls left.
LastStored(t, i) ==
    LET before == {j \in Stores(t) : j < i} IN
    IF before = {} THEN req[t].sid0
    ELSE log[t][CHOOSE j \in before : \A k \in before : k <= j].post

\* The first request of the logical call itself was answered 106 or 107.
FirstAttemptExpired(t) ==
    /\ req[t].restricted
    /\ CallRequests(t) # {}
    /\ IsExpiryAnswer(log[t][CHOOSE i \in CallRequests(t) : \A k \in CallRequests(t) : i <= k].ans)

FirstCallRequest(t) == CHOOSE i \in CallRequests(t) : \A k \in CallRequests(t) : i <= k

\* The logins made after the first attempt was answered.
ReLogins(t) == {i \in LoginRequests(t) : i > FirstCallRequest(t)}

\* ------------------------------------------------------------------ claims
\* C1 as stated: a restricted call whose first attempt is answered 106 or 107
\* makes exactly one re-login and re-issues the request exactly once, and no
\* logical call makes more than two requests or more than two logins.
C1_Original ==
    \A t \in world.callers :
        /\ Cardinality(CallRequests(t)) <= 2
        /\ Cardinality(LoginRequests(t)) <= 2
        /\ (FirstAttemptExpired(t) /\ Done(t)) =>
               /\ Cardinality(ReLogins(t)) = 1
               /\ Cardinality(CallRequests(t)) = 2

\* C1 amended: after a 106/107 on the first attempt of a restricted call the
\* next thing the transport does is a re-login; the request is re-issued exactly
\* once when every login after that answer succeeds and not at all otherwise;
\* there is exactly one re-login unless it stored a null sid, which makes the
\* retried call log in once more. No logical call issues more than two
\* non-login requests or more than three logins, and none more than two
\* logins unless a login stored a null sid.
C1_RetryBudget ==
    \A t \in world.callers :
        /\ Cardinality(CallRequests(t)) <= 2
        /\ Cardinality(LoginRequests(t)) <= 3
        /\ (\A i \in Stores(t) : log[t][i].post # None) => Cardinality(LoginRequests(t)) <= 2
        /\ (FirstAttemptExpired(t) /\ Done(t)) =>
               /\ FirstCallRequest(t) + 1 \in LoginRequests(t)
               /\ Cardinality(CallRequests(t)) =
                      IF \A i \in ReLogins(t) : LoginSucceeded(t, i) THEN 2 ELSE 1
               /\ (\A i \in Stores(t) : i > FirstCallRequest(t) => log[t][i].post # None)
                      => Cardinality(ReLogins(t)) = 1

\* C1 witness: a restricted call answered 106 that logged in again once and
\* re-issued the request once.
C1_Witness ==
    \E t \in world.callers :
        /\ FirstAttemptExpired(t) /\ Done(t)
        /\ Cardinality(ReLogins(t)) = 1
        /\ Cardinality(CallRequests(t)) = 2

\* C2 as stated: when the retried attempt (retried=True) is again answered 106
\* or 107, the call fails with a session error (SynologyCommonError) carrying
\* that code and its message, and nothing is requested after that answer.
C2_Original ==
    \A t \in world.callers : \A i \in CallRequests(t) :
        (log[t][i].retried /\ IsExpiryAnswer(log[t][i].ans)) =>
            /\ EndsCall(t, i)
            /\ outcome[t].exc = "SynologyCommonError"
            /\ outcome[t].code = log[t][i].ans.body.code
            /\ outcome[t].message = GetCommonErrorMessage(log[t][i].ans.body.code)

\* Thread t is inside _login.
InLogin(t) == \E i \in DOMAIN stack[t] : stack[t][i].fn = "_login"

\* Thread t is about to send the request of its logical call with the sid its
\* own login has just stored.
FreshSidInUse(t) ==
    /\ stack[t] # <<>>
    /\ Top(stack[t]).fn = "call" /\ ~Top(stack[t]).login /\ Top(stack[t]).pc = "request"
    /\ Stores(t) # {}
    /\ Top(stack[t]).cookie = LastStored(t, Len(log[t]) + 1)

\* C3 as stated: the check-session / login / store-sid sequence is mutually
\* exclusive: two threads are never inside _login on the same Http instance at
\* the same time, and the sid a call has just stored is still the stored sid
\* while the call uses it.
C3_LoginMutex ==
    /\ \A t1 \in world.callers : \A t2 \in world.callers :
           t1 # t2 => ~(InLogin(t1) /\ InLogin(t2))
    /\ \A t \in world.callers : FreshSidInUse(t) => sid = Top(stack[t]).cookie

\* C4 as stated: a response with success=false and code c that ends the call
\* reaches the caller as SynologyCommonError (100 <= c < 200) or
\* SynologyApiError (otherwise) with code c and the resolved message.
C4_Original ==
    \A t \in world.callers : \A i \in DOMAIN log[t] : \A c \in Codes :
        (log[t][i].ev = "request" /\ IsCodeAnswer(log[t][i].ans, c) /\ EndsCall(t, i)) =>
            /\ outcome[t].exc =
                   IF 100 <= c /\ c < 200 THEN "SynologyCommonError" ELSE "SynologyApiError"
            /\ outcome[t].code = c
            /\ outcome[t].message =
                   IF 100 <= c /\ c < 200 THEN GetCommonErrorMessage(c)
                   ELSE IF c \in ErrorsDomain(log[t][i].errors)
                   THEN ErrorsText(log[t][i].errors, c)
                   ELSE "Unknown API error, please check the documentation"

\* C5: a request of a call with restricted=False (the login call included)
\* that is answered 106 or 107 ends the logical call with a failure at once:
\* nothing is requested after it, the stored sid is what it was before the
\* request, and a logical call that is itself unrestricted has made that one
\* request and no login.
C5_UnrestrictedExpiry ==
    \A t \in world.callers : \A i \in DOMAIN log[t] :
        (log[t][i].ev = "request" /\ ~log[t][i].restricted /\ IsExpiryAnswer(log[t][i].ans)) =>
            /\ EndsCall(t, i)
            /\ sid = log[t][i].pre
            /\ ~req[t].restricted => (Len(log[t]) = 1 /\ sid = req[t].sid0)

\* C5 witness: an unrestricted logical call answered 106, made while a session
\* is stored.
C5_Witness ==
    \E t \in world.callers :
        /\ Done(t) /\ ~req[t].restricted /\ req[t].sid0 # None
        /\ IsCodeAnswer(log[t][Len(log[t])].ans, 106)

\* C6: an error code other than 106 and 107 never leads to a re-login or a
\* retry: the request that received it is the last one of the logical call,
\* which fails, whatever restricted and retried are.
C6_NoRetryOnOtherCodes ==
    \A t \in world.callers : \A i \in DOMAIN log[t] : \A c \in Codes \ {106, 107} :
        (log[t][i].ev = "request" /\ IsCodeAnswer(log[t][i].ans, c)) => EndsCall(t, i)

\* C6 witness: a restricted call, not yet retried, answered with the common
\* code 105.
C6_Witness ==
    \E t \in world.callers : \E i \in CallRequests(t) :
        /\ log[t][i].restricted /\ ~log[t][i].retried
        /\ IsCodeAnswer(log[t][i].ans, 105)
        /\ EndsCall(t, i)

\* C7 as stated: a restricted call with no stored sid logs in before its
\* request; every request of a restricted call carries a session cookie equal
\* to the sid stored by the most recent successful login; after a failed login
\* the request is never issued.
C7_Original ==
    \A t \in world.callers :
        /\ (req[t].restricted /\ req[t].sid0 = None /\ CallRequests(t) # {}) =>
               (1 \in LoginRequests(t) /\ LoginSucceeded(t, 1))
        /\ \A i \in CallRequests(t) :
               log[t][i].restricted =>
                   (log[t][i].cookie # None /\ log[t][i].cookie = LastStored(t, i))
        /\ \A i \in LoginRequests(t) :
               ~LoginSucceeded(t, i) => (Done(t) => \A k \in CallRequests(t) : k < i)

\* C7 amended: as stated, except that the request carries the session cookie
\* only when the sid stored by the most recent successful login is not null;
\* when the login answer's sid is null the request goes out with no session
\* cookie.
C7_SessionCookie ==
    \A t \in world.callers :
        /\ (req[t].restricted /\ req[t].sid0 = None /\ CallRequests(t) # {}) =>
               (1 \in LoginRequests(t) /\ LoginSucceeded(t, 1))
        /\ \A i \in CallRequests(t) :
               log[t][i].restricted => log[t][i].cookie = LastStored(t, i)
        /\ \A i \in LoginRequests(t) :
               ~LoginSucceeded(t, i) => (Done(t) => \A k \in CallRequests(t) : k < i)

\* C7 witness: a restricted call that started with no sid, logged in and sent
\* its request with the cookie of that login; then its re-login failed.
C7_Witness ==
    \E t \in world.callers :
        /\ req[t].restricted /\ req[t].sid0 = None /\ Done(t)
        /\ \E i \in CallRequests(t) : log[t][i].cookie \in Sids
        /\ \E i \in LoginRequests(t) : ~LoginSucceeded(t, i)

\* C8: the stored sid changes only as the last step of a successful login:
\* every store follows a login request whose answer succeeded and carried the
\* stored sid, and the sid is at every moment the one of the last such store,
\* or the one the logical call started with when it stored none (its logins
\* failed, or it made no login).
LoginAnswerCarries(a, s) ==
    /\ a.net = "ok" /\ a.status = 200 /\ ~a.zip /\ a.json
    /\ a.body.hasSuccess /\ a.body.success
    /\ a.body.hasData /\ a.body.data.hasSid /\ a.body.data.sid = s

C8_SidChangesOnlyOnLogin ==
    \A t \in world.callers :
        /\ sid = LastStored(t, Len(log[t]) + 1)
        /\ \A i \in DOMAIN log[t] :
               IF i \in Stores(t)
               THEN /\ i - 1 \in LoginRequests(t)
                    /\ LoginAnswerCarries(log[t][i - 1].ans, log[t][i].post)
               ELSE log[t][i].post = log[t][i].pre

\* C8 witness: a call that ended with the sid it started with although a
\* login was tried (it failed), after an earlier call had stored a sid.
C8_Witness ==
    \E t \in world.callers :
        /\ Done(t) /\ req[t].sid0 \in Sids /\ sid = req[t].sid0
        /\ LoginRequests(t) # {} /\ Stores(t) = {}

\* C9: a transport failure (the request times out, or the status is not 200)
\* ends the logical call with a failure at once: no login and no request
\* follows, also for a restricted call not yet retried whose non-200 answer
\* carries code 106 in its body.
IsTransportFailure(a) == a.net = "timeout" \/ (a.net = "ok" /\ a.status # 200)

C9_TransportFailureFatal ==
    \A t \in world.callers : \A i \in DOMAIN log[t] :
        (log[t][i].ev = "request" /\ IsTransportFailure(log[t][i].ans)) =>
            /\ EndsCall(t, i)
            /\ outcome[t].exc = IF log[t][i].ans.net = "timeout"
                                THEN "Timeout" ELSE "SynologyHttpException"

\* C9 witness: a restricted call, not retried, whose request got a non-200
\* answer with code 106 in the body.
C9_Witness ==
    \E t \in world.callers : \E i \in CallRequests(t) :
        /\ log[t][i].restricted /\ ~log[t][i].retried
        /\ log[t][i].ans = Non200Answer(ErrBody(106))
        /\ EndsCall(t, i)

\* C10: a decoded JSON answer with no `success` key that lacks `data` or lacks
\* `error` is rejected with the malformed-response SynologyHttpException, and
\* that ends the logical call: no error-code handling, login or retry.
LacksEnvelope(a) ==
    /\ a.net = "ok" /\ a.status = 200 /\ ~a.zip /\ a.json
    /\ ~a.body.hasSuccess /\ ~(a.body.hasData /\ a.body.hasError)

C10_MalformedRejected ==
    \A t \in world.callers : \A i \in DOMAIN log[t] :
        (log[t][i].ev = "request" /\ LacksEnvelope(log[t][i].ans)) =>
            /\ EndsCall(t, i)
            /\ outcome[t] = Raise("SynologyHttpException",
                                  "The output received by the server is malformed")

\* C10 witness: a restricted call, not retried, answered {"error": {"code": 106}}.
C10_Witness ==
    \E t \in world.callers : \E i \in CallRequests(t) :
        /\ log[t][i].restricted /\ ~log[t][i].retried
        /\ log[t][i].ans = JsonAnswer(OnlyErrorBody)
        /\ EndsCall(t, i)

\* The server answered the request with a JSON object whose success is true.
IsSuccessAnswer(a) ==
    /\ a.net = "ok" /\ a.status = 200 /\ ~a.zip /\ a.json
    /\ a.body.hasSuccess /\ a.body.success

\* The login whose request is entry i of the log of t has returned to _login,
\* which is about to execute line 75.
AtStore(t, i) ==
    /\ i = Len(log[t]) /\ stack[t] # <<>>
    /\ Top(stack[t]).fn = "_login" /\ Top(stack[t]).pc = "store"

\* C11: for a successful answer Http.call returns the value of `success` when
\* the answer has no `data` key and the value of `data` otherwise. For the
\* logical call that value is the caller's result, also when the answer is the
\* one of the retried attempt; for the login call it is the `response` of
\* _login, whose "sid" is stored (a response without the key, or the bare
\* success flag, makes line 75 fail).
C11_SuccessValue ==
    \A t \in world.callers : \A i \in DOMAIN log[t] :
        (log[t][i].ev = "request" /\ IsSuccessAnswer(log[t][i].ans)) =>
            LET body == log[t][i].ans.body IN
            IF ~log[t][i].login
            THEN /\ i = Len(log[t]) /\ stack[t] = <<>>
                 /\ outcome[t] = Return(IF body.hasData THEN DataValue(body.data)
                                        ELSE BoolValue(TRUE))
            ELSE IF body.hasData /\ body.data.hasSid
            THEN \/ AtStore(t, i)
                 \/ (i + 1 \in Stores(t) /\ log[t][i + 1].post = body.data.sid)
            ELSE \/ AtStore(t, i)
                 \/ /\ EndsCall(t, i)
                    /\ outcome[t].exc = IF body.hasData THEN "KeyError" ELSE "TypeError"

\* C11 witness: a logical call that retried and whose retried answer had
\* success=true and no `data` key.
C11_Witness ==
    \E t \in world.callers :
        /\ Done(t) /\ Cardinality(CallRequests(t)) = 2
        /\ log[t][Len(log[t])].retried
        /\ outcome[t] = Return(BoolValue(TRUE))

\* The message the claim gives to code c under the known-error table errors.
ResolvedMessage(c, errors) ==
    IF 100 <= c /\ c < 200
    THEN IF c \in CommonErrorCodes THEN CommonErrorText(c)
         ELSE "Unknown common error, please check the documentation"
    ELSE IF c \in ErrorsDomain(errors) THEN ErrorsText(errors, c)
    ELSE "Unknown API error, please check the documentation"

\* C12 as stated: the failure that ends a call answered with code c carries the
\* fixed common message of c when 100 <= c < 200, whatever the call's
\* known-error table holds for c, else the table's entry for c, else the
\* generic unknown-API-error message; the retried attempt uses the table of the
\* original call.
C12_Original ==
    \A t \in world.callers : \A i \in DOMAIN log[t] : \A c \in Codes :
        (log[t][i].ev = "request" /\ IsCodeAnswer(log[t][i].ans, c) /\ EndsCall(t, i)) =>
            /\ Surfaced(outcome[t]).message = ResolvedMessage(c, log[t][i].errors)
            /\ ~log[t][i].login => log[t][i].errors = req[t].errors

\* C13 as stated: a session error (106/107 on an unrestricted call or on the
\* retried attempt) reaches the caller as a failure the caller can tell apart
\* from the failure raised for any other common code.
C13_Original ==
    \A t \in world.callers : \A i \in DOMAIN log[t] :
        (log[t][i].ev = "request" /\ IsExpiryAnswer(log[t][i].ans) /\ EndsCall(t, i)) =>
            \A c \in {105, 117, 150} :
                Surfaced(outcome[t]) #
                    Surfaced(HandleFailure(
                        CallFrame(log[t][i].login, log[t][i].errors,
                                  log[t][i].restricted, log[t][i].retried),
                        ErrBody(c)))

\* ------------------------------------------------ claims on the WiFi model
\* The profile that get_profile_by_id finds.
ProfileAt(config, profile_id) == GetProfiles(config)[GetProfileById(config, profile_id)]

RECURSIVE TotalRadios(_)
TotalRadios(profiles) ==
    IF profiles = <<>> THEN 0
    ELSE Len(Head(profiles).radio_list) + TotalRadios(Tail(profiles))

\* C16: in every state reached by toggle_smart_connect / enable_radio calls,
\* for an existing profile with enable_smart_connect true is_radio_available
\* is true for "SmartConnect" and false for 2.4G / 5G-1 / 5G-2, and the other
\* way round when the flag is false (or absent); for a profile id that does
\* not exist it is false for every radio type.
C16_Availability ==
    \A m \in DOMAIN held : \A pid \in ProfileArgs : \A t \in RadioTypes :
        LET c == GetConfig(m) IN
        IF \E i \in DOMAIN GetProfiles(c) : GetProfiles(c)[i].id = pid
        THEN LET flag == ProfileAt(c, pid).hasSc /\ ProfileAt(c, pid).sc IN
             IsRadioAvailable(c, pid, t) = IF flag THEN t = "SmartConnect"
                                           ELSE t # "SmartConnect"
        ELSE ~IsRadioAvailable(c, pid, t)

\* A manager whose toggle_smart_connect has switched a profile to Smart
\* Connect: the SmartConnect radio is available and a band radio is not.
C16_Witness ==
    \E m \in touched : \E pid \in ProfileArgs :
        LET c == GetConfig(m) IN
        /\ GetProfileById(c, pid) # 0
        /\ ProfileAt(c, pid).hasSc /\ ProfileAt(c, pid).sc
        /\ IsRadioAvailable(c, pid, "SmartConnect")
        /\ ~IsRadioAvailable(c, pid, "5G-1")
        /\ \E q \in ProfileArgs : q # pid /\ GetProfileById(c, q) # 0
                                   /\ IsRadioAvailable(c, q, "2.4G")

\* C17: get_network_summary has as many descriptors as there are profiles
\* plus radios over all profiles, and as many after any mutations as when the
\* manager was built.
C17_SummaryLength ==
    \A m \in DOMAIN held :
        /\ Len(GetNetworkSummary(GetConfig(m)))
               = Len(GetProfiles(GetConfig(m))) + TotalRadios(GetProfiles(GetConfig(m)))
        /\ Len(GetNetworkSummary(GetConfig(m))) = Len(layout[m])

\* A mutated configuration of two profiles with radio lists of different
\* lengths, one radio switched off.
C17_Witness ==
    \E m \in touched :
        LET ps == GetProfiles(GetConfig(m)) IN
        /\ Len(ps) >= 2
        /\ Len(ps[1].radio_list) # Len(ps[2].radio_list)
        /\ \E r \in DOMAIN ps[2].radio_list : ~EnableOf(ps[2].radio_list[r])
        /\ \E r \in DOMAIN ps[2].radio_list : EnableOf(ps[2].radio_list[r])
        /\ Len(GetNetworkSummary(GetConfig(m))) = Len(ps) + TotalRadios(ps)
        /\ Len(GetNetworkSummary(GetConfig(m))) > Len(ps)

\* The descriptors of the summary that carry profile id pid.
DescriptorsOf(summary, pid) == {k \in DOMAIN summary : summary[k].profile_id = pid}

\* C18: for every profile exactly one descriptor of the summary carries its
\* id with switch_type smart_connect_toggle and always_available true,
\* whatever the profile's enable_smart_connect; every other descriptor of the
\* profile has switch_type radio and always_available false.
C18_OneToggle ==
    \A m \in DOMAIN held : \A i \in DOMAIN GetProfiles(GetConfig(m)) :
        LET s == GetNetworkSummary(GetConfig(m))
            mine == DescriptorsOf(s, GetProfiles(GetConfig(m))[i].id)
            toggles == {k \in mine : /\ s[k].switch_type = "smart_connect_toggle"
                                     /\ s[k].always_available}
        IN  /\ Cardinality(toggles) = 1
            /\ \A k \in mine \ toggles :
                   s[k].switch_type = "radio" /\ ~s[k].always_available

\* A mutated configuration with Smart Connect on in one profile and off in
\* another, both with radios.
C18_Witness ==
    \E m \in touched :
        LET ps == GetProfiles(GetConfig(m))
            s == GetNetworkSummary(GetConfig(m))
        IN  \E i, j \in DOMAIN ps :
                /\ SmartConnectOf(ps[i]) /\ ps[j].hasSc /\ ~ps[j].sc
                /\ Cardinality(DescriptorsOf(s, ps[i].id)) > 1
                /\ Cardinality(DescriptorsOf(s, ps[j].id)) > 1
                /\ \E k \in DescriptorsOf(s, ps[j].id) :
                       s[k].switch_type = "smart_connect_toggle" /\ s[k].always_available

\* C19: a radio descriptor's `available` equals is_radio_available and its
\* `enabled` equals is_radio_enabled for its profile id and radio type, and
\* a toggle descriptor's `enabled` equals is_smart_connect_enabled for its
\* profile id, all on the same configuration.
C19_SummaryAgreesWithQueries ==
    \A m \in DOMAIN held :
        LET c == GetConfig(m)
            s == GetNetworkSummary(c)
        IN  \A k \in DOMAIN s :
                IF s[k].switch_type = "radio"
                THEN /\ s[k].hasAvailable
                     /\ s[k].available = IsRadioAvailable(c, s[k].profile_id, s[k].radio_type)
                     /\ s[k].enabled = IsRadioEnabled(c, s[k].profile_id, s[k].radio_type)
                ELSE s[k].enabled = IsSmartConnectEnabled(c, s[k].profile_id)

\* A mutated configuration whose summary has an available radio switched on,
\* an unavailable radio switched on, and a toggle that is on.
C19_Witness ==
    \E m \in touched :
        LET s == GetNetworkSummary(GetConfig(m)) IN
        /\ \E k \in DOMAIN s : s[k].switch_type = "radio" /\ s[k].available /\ s[k].enabled
        /\ \E k \in DOMAIN s : s[k].switch_type = "radio" /\ ~s[k].available /\ s[k].enabled
        /\ \E k \in DOMAIN s : s[k].switch_type = "radio" /\ s[k].available /\ ~s[k].enabled
        /\ \E k \in DOMAIN s : s[k].switch_type = "smart_connect_toggle" /\ s[k].enabled

\* The descriptors of the profiles before position i.
Offset(profiles, i) == (i - 1) + TotalRadios(SubSeq(profiles, 1, i - 1))

\* C20: the summary lists the profiles in their order, each as its toggle
\* descriptor followed by its radios in radio_list order; equal
\* configurations give equal summaries; and the order after any mutations is
\* the order when the manager was built.
C20_SummaryOrder ==
    \A m \in DOMAIN held :
        LET ps == GetProfiles(GetConfig(m))
            s == GetNetworkSummary(GetConfig(m))
        IN  /\ \A i \in DOMAIN ps :
                   /\ s[Offset(ps, i) + 1].switch_type = "smart_connect_toggle"
                   /\ s[Offset(ps, i) + 1].profile_id = ps[i].id
                   /\ \A r \in DOMAIN ps[i].radio_list :
                          LET d == s[Offset(ps, i) + 1 + r] IN
                          /\ d.switch_type = "radio"
                          /\ d.profile_id = ps[i].id
                          /\ d.radio_type = ps[i].radio_list[r].radio_type
                          /\ d.ssid = ps[i].radio_list[r].ssid
            /\ \A n \in DOMAIN held :
                   GetConfig(n) = GetConfig(m) => GetNetworkSummary(GetConfig(n)) = s
            /\ SwitchesOf(s) = layout[m]

\* A mutated configuration of two profiles whose ids run against their
\* positions and whose first profile lists its SmartConnect radio before a
\* band radio.
C20_Witness ==
    \E m \in touched :
        LET ps == GetProfiles(GetConfig(m))
            s == GetNetworkSummary(GetConfig(m))
        IN  /\ Len(ps) >= 2
            /\ ps[1].id > ps[2].id
            /\ Len(ps[1].radio_list) >= 2
            /\ ps[1].radio_list[1].radio_type = "SmartConnect"
            /\ Len(ps[2].radio_list) >= 2
            /\ s[2].radio_type = "SmartConnect" /\ s[3].radio_type = "2.4G"
            /\ s[4].switch_type = "smart_connect_toggle" /\ s[4].profile_id = ps[2].id
            /\ s[2].enabled # s[3].enabled

\* ---------------------------------------------- claims on manager aliasing
\* C15 as stated: a manager works on a copy, so that after any enable_radio /
\* toggle_smart_connect calls the snapshot it was built from still holds what
\* was fetched, and so does a manager on which no call has changed anything.
C15_Original ==
    \A m \in DOMAIN held :
        /\ objs[built[m]] = objs[Polled]
        /\ m \notin touched => GetConfig(m) = objs[Polled]

\* C15, amended: a manager works on the snapshot object itself. get_config()
\* is the object it was built from, so its mutations show in that object and
\* in every manager built from the same object; a snapshot fetched
\* separately, none of whose managers has mutated, still holds what was
\* fetched.
C15_SharedSnapshot ==
    \A m \in DOMAIN held :
        /\ held[m] = built[m]
        /\ GetConfig(m) = objs[built[m]]
        /\ \A n \in DOMAIN held : built[n] = built[m] => GetConfig(n) = GetConfig(m)
        /\ (\A n \in touched : built[n] # built[m]) => GetConfig(m) = objs[Polled]

\* Manager 1 alone has mutated: its snapshot and manager 2, built from the
\* same snapshot, show the change; manager 3, built from another, does not.
C15_Witness ==
    /\ touched = {1}
    /\ built[2] = built[1] /\ built[3] # built[1]
    /\ objs[built[1]] # objs[Polled]
    /\ GetConfig(2) = GetConfig(1)
    /\ GetConfig(3) = objs[Polled]
    /\ GetNetworkSummary(GetConfig(2)) # GetNetworkSummary(objs[Polled])

\* ------------------------------------------------ claims on toggle cycles
\* What configuration c holds for the switch a target addresses.
SwitchValue(c, tgt) ==
    IF tgt.radio_type = "smart_connect_toggle"
    THEN IsSmartConnectEnabled(c, tgt.profile_id)
    ELSE IsRadioEnabled(c, tgt.profile_id, tgt.radio_type)

SameSwitch(t1, t2) ==
    t1.profile_id = t2.profile_id /\ t1.radio_type = t2.radio_type

\* Threads a and b both fetched before either pushed, then a pushed, then b.
RacedPushes(a, b) ==
    /\ pushes = <<a, b>>
    /\ cycle[a].seen = 0 /\ cycle[b].seen = 0

\* C14: two cycles on different switches may both fetch before either
\* pushes; the router then holds what the later push sent, that is the
\* configuration as fetched with the later cycle's change alone, and the
\* earlier cycle's change is gone.
C14_LostUpdate ==
    \A a, b \in Threads :
        (RacedPushes(a, b) /\ ~SameSwitch(cycle[a].target, cycle[b].target)) =>
            /\ router = Pushed(GetConfig(b))
            /\ SwitchValue(router, cycle[b].target) = cycle[b].target.enabled
            /\ \A tgt \in TargetsOf(objs[Polled]) :
                   ~SameSwitch(tgt, cycle[b].target) =>
                       SwitchValue(router, tgt) = SwitchValue(objs[Polled], tgt)
            /\ SwitchValue(router, cycle[a].target) = SwitchValue(objs[Polled], cycle[a].target)

\* Both cycles switch something on, on different switches; after the raced
\* pushes the router has the later one on and the earlier one still off.
C14_Witness ==
    \E a, b \in Threads :
        /\ RacedPushes(a, b)
        /\ ~SameSwitch(cycle[a].target, cycle[b].target)
        /\ cycle[a].target.enabled /\ cycle[b].target.enabled
        /\ cycle[a].pc = "pushed" /\ cycle[b].pc = "pushed"
        /\ ~SwitchValue(objs[Polled], cycle[a].target)
        /\ ~SwitchValue(objs[Polled], cycle[b].target)
        /\ SwitchValue(GetConfig(a), cycle[a].target)
        /\ ~SwitchValue(router, cycle[a].target)
        /\ SwitchValue(router, cycle[b].target)

\* --------------------------------------------- claims on direct invocations
\* The radio (p, r) exists in configuration c.
RadioExists(c, p, r) ==
    \E i \in DOMAIN GetProfiles(c) :
        /\ GetProfiles(c)[i].id = p
        /\ \E k \in DOMAIN GetProfiles(c)[i].radio_list :
               GetProfiles(c)[i].radio_list[k].radio_type = r

\* C21: enable_radio(p, r, v) invoked twice on an existing radio returns
\* True both times, leaves is_radio_enabled(p, r) = v, and the configuration
\* after the second invocation equals the one after the first.
C21_EnableRadioIdempotent ==
    \A m \in DOMAIN held :
        (/\ last.op = "enable_radio" /\ last.times = 2
         /\ RadioExists(objs[Polled], last.profile_id, last.radio_type)) =>
            /\ last.ret1 = RetBool(TRUE)
            /\ last.ret = RetBool(TRUE)
            /\ IsRadioEnabled(GetConfig(m), last.profile_id, last.radio_type) = last.enabled
            /\ GetConfig(m) = last.post1

\* A radio that was off (or had no `enable` key) switched on twice.
C21_Witness ==
    \E m \in DOMAIN held :
        /\ last.op = "enable_radio" /\ last.times = 2 /\ last.enabled
        /\ RadioExists(objs[Polled], last.profile_id, last.radio_type)
        /\ ~IsRadioEnabled(objs[Polled], last.profile_id, last.radio_type)
        /\ IsRadioEnabled(GetConfig(m), last.profile_id, last.radio_type)
        /\ GetConfig(m) = last.post1

ReadOnlyOps ==
    {"get_profiles", "get_profile_by_id", "get_radio_by_type", "get_network_summary",
     "get_config", "is_smart_connect_enabled", "is_radio_available", "is_radio_enabled"}

\* C22: before any mutation get_config returns a structure equal to the
\* snapshot the manager was built from, and it still does after a lookup, an
\* is_* query or get_network_summary.
C22_RoundTrip ==
    \A m \in DOMAIN held :
        (last = NoCall \/ last.op \in ReadOnlyOps) =>
            /\ GetConfig(m) = objs[Polled]
            /\ GetConfig(m) = objs[built[m]]

\* A summary has been taken of a configuration that lacks keys (no
\* `profiles`, or a profile without enable_smart_connect and a radio without
\* enable), and get_config still equals the snapshot.
C22_Witness ==
    \E m \in DOMAIN held :
        /\ last.op = "get_network_summary"
        /\ GetConfig(m) = objs[Polled]
        /\ \/ ~GetConfig(m).hasProfiles
           \/ \E i \in DOMAIN GetProfiles(GetConfig(m)) :
                  /\ ~GetProfiles(GetConfig(m))[i].hasSc
                  /\ \E r \in DOMAIN GetProfiles(GetConfig(m))[i].radio_list :
                         ~GetProfiles(GetConfig(m))[i].radio_list[r].hasEnable

\* Radio k of profile i is the same in configurations c and d but for its
\* `enable` key.
SameRadioButEnable(c, d, i, k) ==
    /\ GetProfiles(d)[i].radio_list[k].radio_type = GetProfiles(c)[i].radio_list[k].radio_type
    /\ GetProfiles(d)[i].radio_list[k].ssid = GetProfiles(c)[i].radio_list[k].ssid

\* Configurations c and d have the same profiles with the same radios, and
\* agree on every flag outside the sets of profiles `scs` (for
\* enable_smart_connect) and of radios `ens` (for enable).
SameBut(c, d, scs, ens) ==
    /\ d.hasProfiles = c.hasProfiles
    /\ Len(GetProfiles(d)) = Len(GetProfiles(c))
    /\ \A i \in DOMAIN GetProfiles(c) :
           /\ GetProfiles(d)[i].id = GetProfiles(c)[i].id
           /\ i \notin scs => /\ GetProfiles(d)[i].hasSc = GetProfiles(c)[i].hasSc
                              /\ GetProfiles(d)[i].sc = GetProfiles(c)[i].sc
           /\ Len(GetProfiles(d)[i].radio_list) = Len(GetProfiles(c)[i].radio_list)
           /\ \A k \in DOMAIN GetProfiles(c)[i].radio_list :
                  /\ SameRadioButEnable(c, d, i, k)
                  /\ <<i, k>> \notin ens =>
                         GetProfiles(d)[i].radio_list[k] = GetProfiles(c)[i].radio_list[k]

\* C23: enable_radio(p, r, v) on an existing radio returns True and sets
\* that radio's `enable` to v whatever the profile's enable_smart_connect,
\* every other radio, field and profile flag staying as it was; when the
\* profile or the radio does not exist it returns False and the
\* configuration is unchanged.
C23_EnableRadioFrame ==
    \A m \in DOMAIN held :
        (last.op = "enable_radio" /\ last.times = 1) =>
            LET pre == objs[Polled]
                cur == GetConfig(m)
                hit == UNION {{<<i, k>> : k \in {k \in DOMAIN GetProfiles(pre)[i].radio_list :
                                       GetProfiles(pre)[i].radio_list[k].radio_type
                                           = last.radio_type}} :
                              i \in {i \in DOMAIN GetProfiles(pre) :
                                       GetProfiles(pre)[i].id = last.profile_id}}
            IN  IF hit # {}
                THEN /\ last.ret = RetBool(TRUE)
                     /\ SameBut(pre, cur, {}, hit)
                     /\ \A ik \in hit :
                            /\ GetProfiles(cur)[ik[1]].radio_list[ik[2]].hasEnable
                            /\ GetProfiles(cur)[ik[1]].radio_list[ik[2]].enable = last.enabled
                ELSE last.ret = RetBool(FALSE) /\ cur = pre

\* A band radio switched on while Smart Connect is on in its profile, so
\* that is_radio_available is false for it.
C23_Witness ==
    \E m \in DOMAIN held :
        /\ last.op = "enable_radio" /\ last.times = 1 /\ last.enabled
        /\ last.radio_type # "SmartConnect"
        /\ ~IsRadioAvailable(objs[Polled], last.profile_id, last.radio_type)
        /\ ~IsRadioEnabled(objs[Polled], last.profile_id, last.radio_type)
        /\ last.ret = RetBool(TRUE)
        /\ IsRadioEnabled(GetConfig(m), last.profile_id, last.radio_type)
        /\ Len(GetProfiles(GetConfig(m))) > 1

\* C24: toggle_smart_connect(p, v) on an existing profile returns True and
\* sets that profile's enable_smart_connect to v; no radio's `enable`, no
\* radio list and no other profile changes. When the profile does not exist
\* it returns False and the configuration is unchanged.
C24_ToggleFrame ==
    \A m \in DOMAIN held :
        (last.op = "toggle_smart_connect" /\ last.times = 1) =>
            LET pre == objs[Polled]
                cur == GetConfig(m)
                hit == {i \in DOMAIN GetProfiles(pre) : GetProfiles(pre)[i].id = last.profile_id}
            IN  IF hit # {}
                THEN /\ last.ret = RetBool(TRUE)
                     /\ SameBut(pre, cur, hit, {})
                     /\ \A i \in hit : /\ GetProfiles(cur)[i].hasSc
                                        /\ GetProfiles(cur)[i].sc = last.enabled
                ELSE last.ret = RetBool(FALSE) /\ cur = pre

\* Smart Connect switched on in a profile that has a band radio on: the
\* radio stays on, though it is no longer available.
C24_Witness ==
    \E m \in DOMAIN held : \E rt \in RadioTypes \ {"SmartConnect"} :
        /\ last.op = "toggle_smart_connect" /\ last.times = 1 /\ last.enabled
        /\ last.ret = RetBool(TRUE)
        /\ ~IsSmartConnectEnabled(objs[Polled], last.profile_id)
        /\ IsSmartConnectEnabled(GetConfig(m), last.profile_id)
        /\ IsRadioEnabled(objs[Polled], last.profile_id, rt)
        /\ IsRadioEnabled(GetConfig(m), last.profile_id, rt)
        /\ ~IsRadioAvailable(GetConfig(m), last.profile_id, rt)

\* The operations that take a profile id.
ProfileOps ==
    {"get_profile_by_id", "get_radio_by_type", "is_smart_connect_enabled",
     "is_radio_available", "is_radio_enabled", "enable_radio", "toggle_smart_connect"}

\* C25: for a profile id that is not in the configuration (a configuration
\* without `profiles` included) the lookups return None and the is_* queries
\* and both mutations return False; none of them raises.
C25_UnknownProfile ==
    (/\ last.op \in ProfileOps
     /\ \A i \in DOMAIN GetProfiles(objs[Polled]) :
            GetProfiles(objs[Polled])[i].id # last.profile_id) =>
        /\ last.ret = IF last.op \in {"get_profile_by_id", "get_radio_by_type"}
                      THEN RetNone ELSE RetBool(FALSE)
        /\ last.times = 2 => last.ret1 = RetBool(FALSE)
        /\ \A m \in DOMAIN held : GetConfig(m) = objs[Polled]

\* enable_radio for an unknown profile id and a radio type that another
\* profile does have.
C25_Witness ==
    /\ last.op = "enable_radio" /\ last.enabled
    /\ last.ret = RetBool(FALSE)
    /\ GetProfileById(objs[Polled], last.profile_id) = 0
    /\ \E i \in DOMAIN GetProfiles(objs[Polled]) :
           RadioExists(objs[Polled], GetProfiles(objs[Polled])[i].id, last.radio_type)

\* C26: set_network_setting takes a list of profiles or a dict with a
\* `profiles` key and sends that list; for anything else, a dict without
\* `profiles` included, it raises ValueError, makes no transport call and
\* the router's configuration stays as it was.
C26_SetNetworkSettingArgument ==
    last.op = "set_network_setting" =>
        IF last.arg = "list" \/ (last.arg = "dict" /\ objs[Polled].hasProfiles)
        THEN /\ last.ret # RetRaised("ValueError")
             /\ last.ret = RetBool(TRUE) =>
                    /\ Len(pushes) = 1
                    /\ router = Config(TRUE, GetProfiles(objs[Polled]))
        ELSE /\ last.ret = RetRaised("ValueError")
             /\ pushes = <<>>
             /\ router = objs[Polled]

\* A fetched configuration without `profiles` handed back as it is.
C26_Witness ==
    /\ last.op = "set_network_setting" /\ last.arg = "dict"
    /\ ~objs[Polled].hasProfiles
    /\ last.ret = RetRaised("ValueError")
    /\ pushes = <<>> /\ router = objs[Polled]

\* ------------------------------------------------ claims on Client's flags
\* `response.get("success", False)` of client.py (lines 86, 98, 110, 119,
\* 128, 163, 176, 196) on what Http.call gave back: the answer's `data` has no
\* "success" key of its own, a bool and a zip response have no get().
ResponseGetSuccess(o) ==
    IF o.act # "return" THEN o
    ELSE IF o.value.kind = "data" THEN Return(BoolValue(FALSE))
    ELSE Raise("AttributeError", "object has no attribute 'get'")

\* C27 as stated: a boolean convenience operation of Client returns True
\* whenever the vendor call succeeded, with or without `data` in the answer.
C27_Original ==
    \A t \in world.callers :
        (/\ Done(t) /\ outcome[t].act = "return" /\ CallRequests(t) # {}
         /\ IsSuccessAnswer(log[t][Len(log[t])].ans)) =>
            ResponseGetSuccess(outcome[t]) = Return(BoolValue(TRUE))

\* ------------------------------------------------------ claims on the retry
\* The first attempt of the logical call of t and its retried requests.
FirstAttempts(t) == {i \in CallRequests(t) : ~log[t][i].retried}
RetriedRequests(t) == {i \in CallRequests(t) : log[t][i].retried}

\* Requests i and j of t are the same call: endpoint, api, method, version
\* and params, the known-error table, and the stream mode.
SameCall(t, i, j) ==
    /\ log[t][i].target = log[t][j].target
    /\ log[t][i].errors = log[t][j].errors
    /\ log[t][i].stream = log[t][j].stream

\* C28 as stated: the retried request is the same call as the first attempt,
\* stream mode included, and differs only in the cookie.
C28_Original ==
    \A t \in world.callers : \A i \in RetriedRequests(t) :
        \E j \in FirstAttempts(t) : j < i /\ SameCall(t, j, i)

\* ------------------------------------------------------ claims on termination
\* The frames of Http.call made for the caller (the first attempt and its
\* retry), and the frames of _login, on the stack of t.
CallDepth(t) ==
    Cardinality({i \in DOMAIN stack[t] : stack[t][i].fn = "call" /\ ~stack[t][i].login})
LoginDepth(t) == Cardinality({i \in DOMAIN stack[t] : stack[t][i].fn = "_login"})

\* A frame of _login is the top of the stack or has only its own call above it.
LoginInnermost(t) ==
    \A i \in DOMAIN stack[t] : stack[t][i].fn = "_login" => i >= Len(stack[t]) - 1

BoundedDepth ==
    \A t \in Threads :
        /\ CallDepth(t) <= 2
        /\ LoginDepth(t) <= 1
        /\ LoginInnermost(t)
        /\ Len(stack[t]) <= 4

\* Every request of the logical call of t, logins included, was answered with
\* error code 106 or 107.
AlwaysExpired(t) ==
    \A i \in DOMAIN log[t] :
        log[t][i].ev = "request" => \E c \in {106, 107} : IsCodeAnswer(log[t][i].ans, c)

\* C29: every logical Http.call ends with a value or an exception whatever the
\* server answers, and its recursion never goes deeper than two calls with
\* one login inside a call.
C29_Terminates ==
    /\ []BoundedDepth
    /\ \A t \in Threads : (stack[t] # <<>>) ~> Done(t)

\* A restricted call with a session that got 106 or 107 to its request and
\* to the login request that followed, and ended.
C29_Witness ==
    \E t \in world.callers :
        /\ Done(t) /\ AlwaysExpired(t)
        /\ CallRequests(t) # {} /\ LoginRequests(t) # {}

\* The deepest stack: the retried call logging in because the login before
\* it stored no session id.
C29_Deepest ==
    \E t \in world.callers :
        /\ Len(stack[t]) = 4 /\ CallDepth(t) = 2 /\ LoginDepth(t) = 1

\* ------------------------------------------------- claims on a toggle cycle
\* The profiles and radios of configuration c that target tgt addresses.
TargetProfiles(c, tgt) ==
    IF tgt.radio_type # "smart_connect_toggle" THEN {}
    ELSE {i \in DOMAIN GetProfiles(c) : GetProfiles(c)[i].id = tgt.profile_id}

TargetRadios(c, tgt) ==
    UNION {{<<i, k>> : k \in {k \in DOMAIN GetProfiles(c)[i].radio_list :
                                GetProfiles(c)[i].radio_list[k].radio_type = tgt.radio_type}} :
           i \in {i \in DOMAIN GetProfiles(c) : GetProfiles(c)[i].id = tgt.profile_id}}

\* The handler of t has ended its closure.
CycleOver(t) == cycle[t].pc \in {"pushed", "refreshed", "failed"}

C30_FetchFailed ==
    \E t \in DOMAIN cycle :
        cycle[t].pc = "failed" /\ ~cycle[t].fetched /\ cycle[t].issued = <<"get">>

\* ----------------------------------------------- claims on serialized cycles
\* Cycle a ran first and had pushed before cycle b fetched; both pushed.
SerialPushes(a, b) ==
    /\ pushes = <<a, b>>
    /\ cycle[a].seen = 0 /\ cycle[b].seen = 1

\* The flag that target tgt addresses has value v in configuration c, where
\* c holds the addressed profile or radio at all.
TargetHolds(c, tgt, v) ==
    /\ \A i \in TargetProfiles(c, tgt) : GetProfiles(c)[i].hasSc /\ GetProfiles(c)[i].sc = v
    /\ \A ik \in TargetRadios(c, tgt) :
           /\ GetProfiles(c)[ik[1]].radio_list[ik[2]].hasEnable
           /\ GetProfiles(c)[ik[1]].radio_list[ik[2]].enable = v

\* C31: after cycles that ran one after the other, all calls succeeding, the
\* router holds the initial configuration with the cycles' mutations applied
\* in order: a targeted flag has the value of the last cycle that targeted
\* it, and nothing untargeted has changed.
C31_SerializedCycles ==
    /\ \A a \in DOMAIN cycle :
           pushes = <<a>> =>
               /\ router = Pushed(ApplyTarget(objs[Polled], cycle[a].target))
               /\ TargetHolds(router, cycle[a].target, cycle[a].target.enabled)
               /\ SameBut(objs[Polled], router,
                          TargetProfiles(objs[Polled], cycle[a].target),
                          TargetRadios(objs[Polled], cycle[a].target))
    /\ \A a, b \in DOMAIN cycle :
           SerialPushes(a, b) =>
               LET init == objs[Polled]
                   ta == cycle[a].target
                   tb == cycle[b].target
               IN  /\ router = Pushed(ApplyTarget(ApplyTarget(init, ta), tb))
                   /\ TargetHolds(router, tb, tb.enabled)
                   /\ ~SameSwitch(ta, tb) => TargetHolds(router, ta, ta.enabled)
                   /\ SameBut(init, router,
                              TargetProfiles(init, ta) \cup TargetProfiles(init, tb),
                              TargetRadios(init, ta) \cup TargetRadios(init, tb))

\* Two cycles in a row: the first switched a radio on, the second switched
\* the same radio off again; or they switched two different things on and
\* both are on.
C31_Witness ==
    \E a, b \in DOMAIN cycle :
        /\ SerialPushes(a, b)
        /\ cycle[a].pc = "refreshed" /\ cycle[b].pc = "refreshed"
        /\ ~SameSwitch(cycle[a].target, cycle[b].target)
        /\ cycle[a].target.enabled /\ cycle[b].target.enabled
        /\ SwitchValue(router, cycle[a].target) /\ SwitchValue(router, cycle[b].target)
        /\ ~SwitchValue(objs[Polled], cycle[a].target)
        /\ ~SwitchValue(objs[Polled], cycle[b].target)

\* The second of two cycles undoes the first on the same switch.
C31_LastWins ==
    \E a, b \in DOMAIN cycle :
        /\ SerialPushes(a, b)
        /\ SameSwitch(cycle[a].target, cycle[b].target)
        /\ cycle[a].target.enabled /\ ~cycle[b].target.enabled
        /\ cycle[b].got # objs[Polled]
        /\ router = objs[Polled]

\* -------------------------------------------- claims on handlers, services
\* The radios of configuration c, by position.
RadiosOf(c) ==
    UNION {{<<i, k>> : k \in DOMAIN GetProfiles(c)[i].radio_list} : i \in DOMAIN GetProfiles(c)}

\* The radios whose `enable` differs between what the handler fetched and
\* what it pushed.
ChangedRadios ==
    {ik \in RadiosOf(svc.got) :
        GetProfiles(svc.got)[ik[1]].radio_list[ik[2]]
            # svc.sent[ik[1]].radio_list[ik[2]]}

\* C32 as stated: on every path that changes a radio's `enable` the radio was
\* available in the configuration fetched, so nothing pushed has a changed
\* `enable` on a radio that was not available.
C32_Original ==
    svc.pushed =>
        \A ik \in ChangedRadios : MatchAvailable(svc.got, ik)

\* The same for the enable_wifi and disable_wifi services alone.
C32_ServicesCheck ==
    (svc.pushed /\ svc.path \in {"enable_wifi", "disable_wifi"}) =>
        \A ik \in ChangedRadios : MatchAvailable(svc.got, ik)

\* The handler that ran was enable_wifi or disable_wifi given a network name,
\* and its get came back.
ByNameRan ==
    /\ svc.path \in {"enable_wifi", "disable_wifi"}
    /\ svc.mode = "name" /\ svc.fetched

\* Radio ik of the fetched configuration has the given ssid and is available,
\* and no radio before it in the scan is such.
FirstControllable(ik) ==
    /\ ik \in NameMatches(svc.got, svc.network_name)
    /\ MatchAvailable(svc.got, ik)
    /\ \A jl \in NameMatches(svc.got, svc.network_name) :
           (MatchAvailable(svc.got, jl) /\ ScannedBefore(jl, ik)) => jl = ik

\* C33: resolving a network by SSID sets the `enable` of the first radio, in
\* profile order then radio order, that has the ssid and is available, and
\* of no other; radios with the ssid that are not available are passed over.
\* With no such radio the result is False, the dict is as fetched and no set
\* is issued.
C33_ByName ==
    ByNameRan =>
        IF \E ik \in RadiosOf(svc.got) : FirstControllable(ik)
        THEN /\ svc.applied /\ svc.issued
             /\ \A ik \in RadiosOf(svc.got) :
                    FirstControllable(ik) =>
                        LET after == SetNetworkByName(svc.got, svc.network_name, svc.enabled)
                        IN  /\ SameBut(svc.got, after, {}, {ik})
                            /\ GetProfiles(after)[ik[1]].radio_list[ik[2]].hasEnable
                            /\ GetProfiles(after)[ik[1]].radio_list[ik[2]].enable = svc.enabled
                            /\ svc.pushed =>
                                   /\ svc.sent = after.profiles
                                   /\ ChangedRadios \subseteq {ik}
        ELSE /\ svc.ended = "False"
             /\ ~svc.issued /\ ~svc.pushed
             /\ SetNetworkByName(svc.got, svc.network_name, svc.enabled) = svc.got
             /\ router = svc.got /\ pushes = <<>>

\* A radio with the name that is not available was passed over and a later
\* one with the same name was switched on.
C33_Witness ==
    /\ ByNameRan /\ svc.pushed /\ svc.enabled
    /\ \E ik \in ChangedRadios :
           /\ FirstControllable(ik)
           /\ \E jl \in NameMatches(svc.got, svc.network_name) :
                  jl # ik /\ ScannedBefore(jl, ik) /\ ~MatchAvailable(svc.got, jl)

\* The name is borne only by radios that are not available: nothing is set.
C33_NoneControllable ==
    /\ ByNameRan /\ svc.ended = "False" /\ ~svc.issued
    /\ NameMatches(svc.got, svc.network_name) # {}

\* C34 as stated: a handler or service issues its set only when the mutation
\* was applied; when enable_radio or toggle_smart_connect returned False
\* nothing is pushed to the router.
C34_Original ==
    svc.pushed => svc.applied

\* ------------------------------------------- claims on failures propagated
\* The classes an exception raised by Http.call is an instance of: the
\* timeout of requests is an OSError, the decoding error of response.json()
\* a ValueError, and SynologyException (http.py lines 196-201) derives from
\* Exception alone.
BasesOf(exc) ==
    CASE exc = "Timeout" -> {"Timeout", "RequestException", "OSError", "Exception"}
      [] exc = "JSONDecodeError" ->
             {"JSONDecodeError", "RequestException", "OSError", "ValueError", "Exception"}
      [] exc = "SynologyHttpException" ->
             {"SynologyHttpException", "SynologyException", "Exception"}
      [] exc = "KeyError" -> {"KeyError", "LookupError", "Exception"}
      [] OTHER -> {exc, "Exception"}

IsInstance(exc, classes) == BasesOf(exc) \cap classes # {}

\* The call that get_wifi_network_setting makes (wifi.py lines 20-25):
\* restricted, with no error table and no stream.
IsGetNetworkSetting(t) ==
    req[t].restricted /\ req[t].errors = "none" /\ ~req[t].stream

\* _async_update_data, __init__.py lines 106-117, on how the call ended: the
\* exceptions of line 113 become UpdateFailed, any other goes through, a
\* value is returned wrapped.
AsyncUpdateData(o) ==
    IF o.act # "raise" THEN o
    ELSE IF IsInstance(o.exc, {"OSError", "ValueError", "TypeError", "AttributeError"})
    THEN Raise("UpdateFailed", "Error communicating with Synology SRM")
    ELSE o

\* The try of a switch handler (switch.py lines 139, 157, 283, 301) around a
\* closure whose get or set ended as o: "logged" when the except clause took
\* the exception, "raised" when it went through, "refresh" when the closure
\* returned and the handler went on to ask for a refresh.
SwitchHandlerEnds(o) ==
    IF o.act # "raise" THEN "refresh"
    ELSE IF IsInstance(o.exc, {"OSError", "ValueError", "TypeError"}) THEN "logged"
    ELSE "raised"

\* C35 as stated: whatever way the fetch of a poll fails, _async_update_data
\* fails with UpdateFailed and no other exception leaves it.
C35_Original ==
    \A t \in world.callers :
        (Done(t) /\ IsGetNetworkSetting(t) /\ outcome[t].act = "raise") =>
            AsyncUpdateData(outcome[t]).exc = "UpdateFailed"

\* C36 as stated: when the get or the set of a switch toggle fails in the
\* transport, the handler logs it, raises nothing and asks for no refresh.
C36_Original ==
    \A t \in world.callers :
        (Done(t) /\ IsGetNetworkSetting(t) /\ outcome[t].act = "raise") =>
            SwitchHandlerEnds(outcome[t]) = "logged"

\* ------------------------------------------ claims on the keys of an answer
\* The answer is a JSON object with status 200 (and not a zip file).
IsJsonObjectAnswer(a) == a.net = "ok" /\ a.status = 200 /\ ~a.zip /\ a.json

\* C37 as stated: an object that passes the test of line 134 has `success`,
\* and `error` with `code` when success is false, so that Http.call on a JSON
\* object with status 200 never ends in a KeyError.
C37_Original ==
    \A t \in world.callers : \A i \in DOMAIN log[t] :
        (log[t][i].ev = "request" /\ IsJsonObjectAnswer(log[t][i].ans)) =>
            LET data == log[t][i].ans.body
                f == CallFrame(log[t][i].login, log[t][i].errors,
                               log[t][i].restricted, log[t][i].retried)
            IN  /\ ~Malformed(data) =>
                       /\ data.hasSuccess
                       /\ ~data.success => (data.hasError /\ data.hasCode)
                /\ HandleResponse(f, log[t][i].ans).exc # "KeyError"

\* ----------------------------------------- claims on the session over calls
\* A login of the logical call of t stored a null sid.
StoredNull(t) == \E i \in Stores(t) : log[t][i].post = None

\* The budget of a call that follows an exhausted retry: answered 106 or 107
\* on its own first attempt, it logs in again at once and, when its logins
\* succeed, re-issues the request once, as any call does.
OwnBudget(t) ==
    (req[t].afterExhausted /\ FirstAttemptExpired(t) /\ Done(t)) =>
        /\ FirstCallRequest(t) + 1 \in LoginRequests(t)
        /\ Cardinality(CallRequests(t)) =
               IF \A i \in ReLogins(t) : LoginSucceeded(t, i) THEN 2 ELSE 1
        /\ Cardinality(CallRequests(t)) <= 2

====
